---- MODULE Spec2Model ----
(***************************************************************************)
(* A model of elba's build-job graph: JobQueue::new (classification of the *)
(* resolved graph against the build cache) and JobQueue::exec (the layered *)
(* executor), src/src/lib/build/job.rs, with Targets::new of               *)
(* src/src/lib/build/mod.rs.                                               *)
(***************************************************************************)
EXTENDS Integers, Sequences, FiniteSets, TLC

\* ------------------------------------------------------------- bounds
\* Number of nodes of the resolved graph (node 0 is the root package).
NumNodes == 4
\* Longest list of targets handed to Targets::new for the root package.
MaxTargets == 2

\* Longest list of targets handed to Targets::new when it is called alone.
MaxLen == 3
\* Largest index of a Bin or Test target in those lists.
MaxIndex == 1
\* Largest upper half (the bits from 2^32 on) of a usize index given to as_bytes.
MaxHi == 1

\* Most versions of the package in the index when incompats is called alone.
MaxEntries == 3

\* Largest version of a package when best is called alone.
MaxVersion == 3

\* Number of Sha256 digests when retrieve is called alone.
MaxHash == 2

\* let threads = 1;  (job.rs:95)
threads == 1

Nodes == 0 .. (NumNodes - 1)

\* ------------------------------------------------------------- targets
\* enum Target { Lib, Bin(usize), Test(usize), Doc }
Lib == [k |-> "Lib", ix |-> 0]
Bin(i) == [k |-> "Bin", ix |-> i]
Test(i) == [k |-> "Test", ix |-> i]
Doc == [k |-> "Doc", ix |-> 0]

\* #[derive(PartialOrd, Ord)]: variants compare by declaration order, then by field.
TargetRank(t) ==
    CASE t.k = "Lib" -> 0
      [] t.k = "Bin" -> 1
      [] t.k = "Test" -> 2
      [] t.k = "Doc" -> 3

TargetLe(a, b) ==
    \/ TargetRank(a) < TargetRank(b)
    \/ TargetRank(a) = TargetRank(b) /\ a.ix <= b.ix

RECURSIVE InsertSorted(_, _)
InsertSorted(t, s) ==
    IF s = <<>> THEN <<t>>
    ELSE IF TargetLe(t, Head(s)) THEN <<t>> \o s
    ELSE <<Head(s)>> \o InsertSorted(t, Tail(s))

\* ts.sort()
RECURSIVE SortTargets(_)
SortTargets(ts) ==
    IF ts = <<>> THEN <<>>
    ELSE InsertSorted(Head(ts), SortTargets(Tail(ts)))

\* TargetsStep that pushes the Lib a Test or Doc needs instead of inserting
\* it at position 0
M_TargetsStepPushesLib(acc, i) ==
    CASE i.k = "Lib" ->
           IF ~acc.seen_lib
           THEN [res |-> Append(acc.res, i), seen_lib |-> TRUE]
           ELSE acc
      [] i.k = "Bin" -> [acc EXCEPT !.res = Append(acc.res, i)]
      [] OTHER ->
           IF ~acc.seen_lib
           THEN [res |-> Append(Append(acc.res, Lib), i), seen_lib |-> TRUE]
           ELSE acc

\* TargetsStep that pushes every Lib it meets
M_TargetsStepEveryLib(acc, i) ==
    CASE i.k = "Lib" -> [res |-> Append(acc.res, i), seen_lib |-> TRUE]
      [] i.k = "Bin" -> [acc EXCEPT !.res = Append(acc.res, i)]
      [] OTHER ->
           IF ~acc.seen_lib
           THEN [res |-> Append(<<Lib>> \o acc.res, i), seen_lib |-> TRUE]
           ELSE acc

\* The body of the for loop of Targets::new: one target i against the
\* accumulator acc = [res, seen_lib].
TargetsStep(acc, i) ==
    CASE i.k = "Lib" ->
           IF ~acc.seen_lib
           THEN [res |-> Append(acc.res, i), seen_lib |-> TRUE]
           ELSE acc
      [] i.k = "Bin" -> [acc EXCEPT !.res = Append(acc.res, i)]
      [] OTHER ->
           \* Target::Test(_) and Target::Doc share one body
           IF ~acc.seen_lib
           THEN [res |-> Append(<<Lib>> \o acc.res, i), seen_lib |-> TRUE]
           ELSE acc

RECURSIVE TargetsFold(_, _)
TargetsFold(acc, ts) ==
    IF ts = <<>> THEN acc
    ELSE TargetsFold(TargetsStep(acc, Head(ts)), Tail(ts))

\* Targets::new(ts)
TargetsNew(ts) ==
    TargetsFold([res |-> <<>>, seen_lib |-> FALSE], SortTargets(ts)).res

\* A usize index at its full width: the number hi * 2^32 + lo, lo < 2^32.
Usize(hi, lo) == [hi |-> hi, lo |-> lo]

\* *x as u32 keeps the low 32 bits
as_u32(x) == x.lo

\* [tag, (x >> 24) & 0xff, (x >> 16) & 0xff, (x >> 8) & 0xff, x & 0xff]
be_tagged(tag, x) ==
    <<tag, (x \div 16777216) % 256, (x \div 65536) % 256, (x \div 256) % 256, x % 256>>

\* Target::as_bytes, of a target whose index is a Usize
as_bytes(t) ==
    CASE t.k = "Lib" -> <<0, 0, 0, 0, 0>>
      [] t.k = "Doc" -> <<1, 0, 0, 0, 0>>
      [] t.k = "Bin" -> be_tagged(2, as_u32(t.ix))
      [] t.k = "Test" -> be_tagged(3, as_u32(t.ix))

\* Targets the executor model draws the root's list from.  Doc is left out:
\* its arm in exec is unimplemented!() (job.rs:239).
ExecTargetUniverse == {Lib, Bin(0), Test(0)}

SeqsUpTo(S, n) == UNION {[1 .. m -> S] : m \in 0 .. n}

RootTargetChoices == {TargetsNew(xs) : xs \in SeqsUpTo(ExecTargetUniverse, MaxTargets)}

\* ------------------------------------------------------------- values
\* Binary: a handle on a built lib directory; via says which call produced it.
NoBin == [hash |-> -1, via |-> "none"]
CachedBinary(n) == [hash |-> n, via |-> "checkout_build"]
StoredBinary(n) == [hash |-> n, via |-> "store_build"]
LayoutBinary(n) == [hash |-> n, via |-> "layout"]

\* enum Work { None, Fresh(Binary), Dirty(Source, BuildHash) }
\* The Source and BuildHash of node n are identified with n.
WorkNone == [tag |-> "None", bin |-> NoBin]
WorkFresh(b) == [tag |-> "Fresh", bin |-> b]
WorkDirty == [tag |-> "Dirty", bin |-> NoBin]

is_none(w) == w.tag = "None"
is_dirty(w) == w.tag = "Dirty"
is_fresh(w) == w.tag = "Fresh"

VARIABLES
    edges,        \* the resolved graph: <<p, c>> when p depends on c
    cache,        \* build hashes seen or stored as completed builds in the cache
    root_ol,      \* "absent", "unbuilt" or "built": Option<OutputLayout> and is_built
    rootTargets,  \* the Targets of the root
    work,         \* graph[n].work
    curr_layer,   \* JobQueue::new
    next_layer,   \* JobQueue::new
    visits,       \* how often new classified each node
    pc,           \* where the program is
    queue,        \* exec: queue
    pending,      \* exec: closures handed to the pool and not yet run
    layer,        \* exec: jobs dispatched in the current layer
    done,         \* exec: done
    bins,         \* exec: bins
    pushes,       \* how often each node was put on queue
    work0,        \* the work of each node when exec began
    log,          \* what exec and its workers did, in order
    printed,      \* errors printed by exec
    result,       \* what exec returned
    tchain,       \* Targets::new: <<xs, new(xs).0, new(new(xs).0).0>> as far as applied
    pair,         \* Target::as_bytes: the two targets encoded
    bytes,        \* Target::as_bytes: their encodings, once computed
    entries,      \* Retriever::incompats: indices.entries(pkg.id())
    sum,          \* Retriever::incompats: pkg.version(), as a place in the index
    incs,         \* Retriever::incompats: what the call returned
    call,         \* the function called alone and its arguments
    ret           \* what that call returned

\* The variables of the calls of single functions, which the build leaves alone.
fnVars == <<tchain, pair, bytes, entries, sum, incs, call, ret>>

vars == <<edges, cache, root_ol, rootTargets, work, curr_layer, next_layer, visits,
          pc, queue, pending, layer, done, bins, pushes, work0, log, printed, result,
          fnVars>>

\* ------------------------------------------------------------- graph
RECURSIVE SetToSeq(_)
SetToSeq(S) ==
    IF S = {} THEN <<>>
    ELSE LET m == CHOOSE x \in S : \A y \in S : x <= y
         IN <<m>> \o SetToSeq(S \ {m})

\* graph.children(n): the nodes n depends on
children(n) == SetToSeq({c \in DOMAIN work : <<n, c>> \in edges})

\* graph.parents(n): the nodes that depend on n
parents(n) == SetToSeq({p \in DOMAIN work : <<p, n>> \in edges})

Range(s) == {s[i] : i \in 1 .. Len(s)}

RECURSIVE ReachableFrom(_, _)
ReachableFrom(S, E) ==
    LET T == S \cup {e[2] : e \in {f \in E : f[1] \in S}}
    IN IF T = S THEN S ELSE ReachableFrom(T, E)

\* Resolved graphs: acyclic (nodes numbered in a topological order), every
\* package reachable from the root.
Graphs ==
    {E \in SUBSET {e \in Nodes \X Nodes : e[1] < e[2]} : ReachableFrom({0}, E) = Nodes}

\* Job.targets: root.clone() for node 0, Targets::new(vec![Target::Lib]) otherwise
targets(n) == IF n = 0 THEN rootTargets ELSE TargetsNew(<<Lib>>)

NoErr == [kind |-> "none", job |-> -1]

NoResult == [status |-> "none", err |-> NoErr, libs |-> <<>>, bins |-> <<>>]

\* incs before the call of incompats
NotCalled == [called |-> FALSE, ok |-> FALSE, res |-> <<>>]

\* No single function is being called.
\* call and ret when no function is called through them
NoCall == [fn |-> "none"]
NoRet == [called |-> FALSE]

FnIdle ==
    /\ call = NoCall
    /\ ret = NoRet
    /\ tchain = <<>>
    /\ pair = <<>>
    /\ bytes = <<>>
    /\ entries = <<>>
    /\ sum = 0
    /\ incs = NotCalled

Init ==
    /\ FnIdle
    /\ edges \in Graphs
    /\ cache = {}
    /\ root_ol \in {"absent", "unbuilt", "built"}
    /\ rootTargets \in RootTargetChoices
    /\ work = [n \in Nodes |-> WorkNone]
    /\ curr_layer = {}
    /\ next_layer = {0}
    /\ visits = [n \in Nodes |-> 0]
    /\ pc = "new"
    /\ queue = <<>>
    /\ pending = <<>>
    /\ layer = <<>>
    /\ done = <<>>
    /\ bins = <<>>
    /\ pushes = [n \in Nodes |-> 0]
    /\ work0 = [n \in Nodes |-> WorkNone]
    /\ log = <<>>
    /\ printed = <<>>
    /\ result = NoResult

execVars == <<queue, pending, layer, done, bins, pushes, work0, log, printed, result>>
inputVars == <<edges, root_ol, rootTargets, fnVars>>
buildVars == <<edges, cache, root_ol, rootTargets, work, curr_layer, next_layer, visits,
               pc, queue, pending, layer, done, bins, pushes, work0, log, printed, result>>

\* No JobQueue exists.
BuildIdle ==
    /\ edges = {}
    /\ cache = {}
    /\ root_ol = "absent"
    /\ rootTargets = <<>>
    /\ work = [n \in Nodes |-> WorkNone]
    /\ curr_layer = {}
    /\ next_layer = {}
    /\ visits = [n \in Nodes |-> 0]
    /\ pc = "idle"
    /\ queue = <<>>
    /\ pending = <<>>
    /\ layer = <<>>
    /\ done = <<>>
    /\ bins = <<>>
    /\ pushes = [n \in Nodes |-> 0]
    /\ work0 = [n \in Nodes |-> WorkNone]
    /\ log = <<>>
    /\ printed = <<>>
    /\ result = NoResult

\* ------------------------------------------------------------- JobQueue::new
\* curr_layer.extend(next_layer.drain())
NewLayer ==
    /\ pc = "new"
    /\ curr_layer = {}
    /\ next_layer # {}
    /\ curr_layer' = next_layer
    /\ next_layer' = {}
    /\ UNCHANGED <<inputVars, cache, work, visits, pc, execVars>>

\* Classify asking the cache before it looks at the root layout
M_ClassifyCacheFirst(node, hit) ==
    IF hit THEN WorkFresh(CachedBinary(node))
    ELSE IF node = 0 /\ root_ol = "built" THEN WorkNone
    ELSE WorkDirty

\* The Job a visited node gets; hit says whether cache.checkout_build
\* returned Some(binary).
Classify(node, hit) ==
    IF node = 0 /\ root_ol = "built" THEN WorkNone
    ELSE IF hit THEN WorkFresh(CachedBinary(node))
    ELSE WorkDirty

\* The children a Dirty node adds to next_layer.
Unvisited(node) == {c \in Range(children(node)) : is_none(work[c])}

\* Enqueued that extends next_layer whatever the node was classified as
M_EnqueuedAlways(node, job) == Unvisited(node)

\* if let Work::Dirty(..) = job.work { next_layer.extend(..) }
Enqueued(node, job) == IF is_dirty(job) THEN Unvisited(node) ELSE {}

\* One iteration of `for node in curr_layer.drain()`.  The cache is read when
\* the node is visited; a second visit of a node finds what the first found.
Visit(node, hit) ==
    /\ pc = "new"
    /\ node \in curr_layer
    /\ visits[node] > 0 => (hit <=> is_fresh(work[node]))
    /\ curr_layer' = curr_layer \ {node}
    /\ next_layer' = next_layer \cup Enqueued(node, Classify(node, hit))
    /\ work' = [work EXCEPT ![node] = Classify(node, hit)]
    /\ cache' = IF is_fresh(Classify(node, hit)) THEN cache \cup {node} ELSE cache
    /\ visits' = [visits EXCEPT ![node] = @ + 1]
    /\ UNCHANGED <<inputVars, pc, execVars>>

\* bcx.cache.checkout_build(&build_hash)? fails
VisitFails(node) ==
    /\ pc = "new"
    /\ node \in curr_layer
    /\ ~(node = 0 /\ root_ol = "built")
    /\ pc' = "new_failed"
    /\ UNCHANGED <<inputVars, cache, work, curr_layer, next_layer, visits, execVars>>

\* Ok(JobQueue { graph, root_ol })
NewReturns ==
    /\ pc = "new"
    /\ curr_layer = {}
    /\ next_layer = {}
    /\ pc' = "constructed"
    /\ UNCHANGED <<inputVars, cache, work, curr_layer, next_layer, visits, execVars>>

\* bottom_jobs without the test of the children
M_bottom_jobs_AllDirty ==
    SelectSeq(SetToSeq(DOMAIN work), LAMBDA index : is_dirty(work[index]))

\* ------------------------------------------------------------- JobQueue::exec
\* Bottom jobs are Dirty jobs whose dependencies are all satisfied.
bottom_jobs ==
    SelectSeq(SetToSeq(DOMAIN work),
              LAMBDA index : /\ is_dirty(work[index])
                             /\ \A c \in Range(children(index)) : is_fresh(work[c]))

BumpAll(f, s) == [n \in DOMAIN f |-> f[n] + Cardinality({i \in 1 .. Len(s) : s[i] = n})]

\* let mut queue = Vec::from_iter(bottom_jobs), up to the loop
ExecStart ==
    /\ pc = "constructed"
    /\ queue' = bottom_jobs
    /\ pushes' = BumpAll(pushes, bottom_jobs)
    /\ work0' = work
    /\ pc' = "loop"
    /\ UNCHANGED <<inputVars, cache, work, curr_layer, next_layer, visits,
                   pending, layer, done, bins, log, printed, result>>

\* deps that leaves out the children checked out of the cache
M_depsBuiltOnly(job_index) ==
    LET fresh == SelectSeq(children(job_index),
                           LAMBDA c : is_fresh(work[c]) /\ work[c].bin.via # "checkout_build")
    IN [i \in 1 .. Len(fresh) |-> work[fresh[i]].bin]

\* deps gathered from the parents of the job instead of its children
M_depsOfParents(job_index) ==
    LET fresh == SelectSeq(parents(job_index), LAMBDA c : is_fresh(work[c]))
    IN [i \in 1 .. Len(fresh) |-> work[fresh[i]].bin]

\* The deps of a job: the binaries of its Fresh children, in child order.
deps(job_index) ==
    LET fresh == SelectSeq(children(job_index), LAMBDA c : is_fresh(work[c]))
    IN [i \in 1 .. Len(fresh) |-> work[fresh[i]].bin]

\* for job_index in queue.drain(..): the jobs that are Dirty are handed to the pool
Dispatched(q) == SelectSeq(q, LAMBDA j : is_dirty(work[j]))

LogEntry(ev, job, ix, ds, ok) == [ev |-> ev, job |-> job, ix |-> ix, deps |-> ds, ok |-> ok]

\* thread_pool.scoped: every queued job that is Dirty gets a closure
Dispatch ==
    /\ pc = "loop"
    /\ queue # <<>>
    /\ LET jobs == Dispatched(queue)
       IN /\ pending' = [i \in 1 .. Len(jobs) |-> [job |-> jobs[i], deps |-> deps(jobs[i])]]
          /\ layer' = jobs
          /\ log' = log \o [i \in 1 .. Len(jobs) |->
                               LogEntry("dispatch", jobs[i], 0, deps(jobs[i]), TRUE)]
    /\ queue' = <<>>
    /\ pc' = "layer"
    /\ UNCHANGED <<inputVars, cache, work, curr_layer, next_layer, visits,
                   done, bins, pushes, work0, printed, result>>

Step(op, ix) == [op |-> op, ix |-> ix]

\* TargetSteps that stores the library of the root in the cache too
M_TargetStepsAlwaysStore(job_index, t) ==
    CASE t.k = "Lib" -> <<Step("compile_lib", 0), Step("store_build", 0)>>
      [] t.k = "Bin" -> <<Step("compile_bin", t.ix)>>
      [] t.k = "Test" -> <<Step("acquire_build_lib", t.ix), Step("compile_test", t.ix)>>
      [] t.k = "Doc" -> <<Step("unimplemented", 0)>>

\* What one target makes the job do.
TargetSteps(job_index, t) ==
    CASE t.k = "Lib" ->
           <<Step("compile_lib", 0),
             IF job_index # 0 THEN Step("store_build", 0) ELSE Step("acquire_lib", 0)>>
      [] t.k = "Bin" -> <<Step("compile_bin", t.ix)>>
      [] t.k = "Test" -> <<Step("acquire_build_lib", t.ix), Step("compile_test", t.ix)>>
      [] t.k = "Doc" -> <<Step("unimplemented", 0)>>

RECURSIVE AllTargetSteps(_, _)
AllTargetSteps(job_index, ts) ==
    IF ts = <<>> THEN <<>>
    ELSE TargetSteps(job_index, Head(ts)) \o AllTargetSteps(job_index, Tail(ts))

\* The layout of a job: the root uses root_ol when there is one.
LayoutSteps(job_index) ==
    IF job_index = 0 /\ root_ol # "absent" THEN <<>> ELSE <<Step("checkout_tmp", 0)>>

\* JobSteps that goes through the targets from the last to the first
M_JobStepsBackwards(job_index) ==
    LayoutSteps(job_index)
        \o AllTargetSteps(job_index,
                          [i \in 1 .. Len(targets(job_index)) |->
                              targets(job_index)[Len(targets(job_index)) + 1 - i]])

\* The fallible calls of the closure `op`, in the order it makes them.
JobSteps(job_index) == LayoutSteps(job_index) \o AllTargetSteps(job_index, targets(job_index))

IsCompile(op) == op \in {"compile_lib", "compile_bin", "compile_test"}

\* The deps a step passes on: a test also gets the root lib just built.
StepDeps(job_index, step, ds) ==
    IF step.op = "compile_test"
    THEN Append(ds, [hash |-> job_index, via |-> "build_lib"])
    ELSE IF IsCompile(step.op) THEN ds
    ELSE <<>>

\* res: the Binary of the last Lib target, None without one
JobBinary(job_index, steps) ==
    IF \E i \in 1 .. Len(steps) : steps[i].op = "store_build" THEN StoredBinary(job_index)
    ELSE IF \E i \in 1 .. Len(steps) : steps[i].op = "acquire_lib" THEN LayoutBinary(job_index)
    ELSE NoBin

JobErr(job_index, step) ==
    [kind |-> IF IsCompile(step.op) THEN "CompileFailed" ELSE "Io", job |-> job_index]

\* StillPending when a failed job makes the pool drop the closures not yet run
M_StillPendingAbort(i, failed) ==
    IF failed THEN <<>>
    ELSE SubSeq(pending, 1, i - 1) \o SubSeq(pending, i + 1, Len(pending))

\* The jobs still to run when the job at position i of pending has run.
StillPending(i, failed) == SubSeq(pending, 1, i - 1) \o SubSeq(pending, i + 1, Len(pending))

\* BinsOf that pushes the output of a test as well
M_BinsOfWithTests(job_index, ran, failAt) ==
    SelectSeq([k \in 1 .. Len(ran) |->
                  IF ran[k].op \in {"compile_bin", "compile_test"} /\ k # failAt
                  THEN <<ran[k].ix, job_index>> ELSE <<>>],
              LAMBDA b : b # <<>>)

\* bins.push((bin_out, source.summary())) after each compile_bin that
\* succeeds: the pairs the steps ran push, in their order.
BinsOf(job_index, ran, failAt) ==
    SelectSeq([k \in 1 .. Len(ran) |->
                  IF ran[k].op = "compile_bin" /\ k # failAt
                  THEN <<ran[k].ix, job_index>> ELSE <<>>],
              LAMBDA b : b # <<>>)

\* A worker runs one closure to its end: the steps up to the first that fails
\* (failAt, 0 when none does), then done.push((job_index, op())).
RunJob(i, failAt) ==
    /\ pc = "layer"
    /\ i \in 1 .. Len(pending)
    /\ i <= threads
    /\ LET job_index == pending[i].job
           steps == JobSteps(job_index)
           ran == IF failAt = 0 THEN steps ELSE SubSeq(steps, 1, failAt)
           okAt(k) == k # failAt
       IN /\ log' = log \o [k \in 1 .. Len(ran) |->
                               LogEntry(ran[k].op, job_index, ran[k].ix,
                                        StepDeps(job_index, ran[k], pending[i].deps), okAt(k))]
                        \o <<LogEntry("finish", job_index, 0, <<>>, failAt = 0)>>
          /\ bins' = bins \o BinsOf(job_index, ran, failAt)
          /\ cache' = IF \E k \in 1 .. Len(ran) : ran[k].op = "store_build" /\ okAt(k)
                      THEN cache \cup {job_index} ELSE cache
          /\ done' = Append(done,
                            IF failAt = 0
                            THEN [job |-> job_index, ok |-> TRUE,
                                  bin |-> JobBinary(job_index, steps), err |-> NoErr]
                            ELSE [job |-> job_index, ok |-> FALSE,
                                  bin |-> NoBin, err |-> JobErr(job_index, steps[failAt])])
          /\ pending' = StillPending(i, failAt # 0)
    /\ UNCHANGED <<inputVars, work, curr_layer, next_layer, visits, pc,
                   queue, layer, pushes, work0, printed, result>>

\* LayerJoin that does not wait for the closures of the layer
M_LayerJoinEarly ==
    /\ pc = "layer"
    /\ pc' = "drain"
    /\ UNCHANGED <<inputVars, cache, work, curr_layer, next_layer, visits,
                   queue, pending, layer, done, bins, pushes, work0, log, printed, result>>

\* The scope ends when every closure has run.
LayerJoin ==
    /\ pc = "layer"
    /\ pending = <<>>
    /\ pc' = "drain"
    /\ UNCHANGED <<inputVars, cache, work, curr_layer, next_layer, visits,
                   queue, pending, layer, done, bins, pushes, work0, log, printed, result>>

\* WorkAfter that drops the binary of the job
M_WorkAfterDropsBinary(w, binary) == WorkNone

\* graph[job_index].work after a successful result
WorkAfter(w, binary) ==
    IF binary # NoBin THEN WorkFresh(binary)
    ELSE IF is_dirty(w) THEN WorkNone
    ELSE w

\* ParentReady testing the parent for is_fresh instead of is_dirty
M_ParentReadyFreshParent(g, parent) ==
    /\ \A c \in Range(children(parent)) : is_fresh(g[c])
    /\ is_fresh(g[parent])

\* ParentReady with any in place of all
M_ParentReadyAnyChild(g, parent) ==
    /\ \E c \in Range(children(parent)) : is_fresh(g[c])
    /\ is_dirty(g[parent])

\* ready && self.graph[parent].work.is_dirty()
ParentReady(g, parent) ==
    /\ \A c \in Range(children(parent)) : is_fresh(g[c])
    /\ is_dirty(g[parent])

\* ChildDone without the test of the parents
M_ChildDoneAlways(g, child) == TRUE

\* ChildDone with any in place of all
M_ChildDoneAnyParent(g, child) == \E p \in Range(parents(child)) : is_fresh(g[p])

\* the parents.all(is_fresh) test of child_done
ChildDone(g, child) == \A p \in Range(parents(child)) : is_fresh(g[p])

\* The Ok(binary) arm: the graph and the queue after the result res of a
\* job, from the graph g0 and the queue q0, and the parents it has queued.
AfterOk(g0, q0, res) ==
    LET job_index == res.job
        g == [g0 EXCEPT ![job_index] = WorkAfter(g0[job_index], res.bin)]
        ready == SelectSeq(parents(job_index), LAMBDA p : ParentReady(g, p))
        child_done == {c \in Range(children(job_index)) : ChildDone(g, c)}
    IN [work |-> [n \in DOMAIN g |-> IF n \in child_done THEN WorkNone ELSE g[n]],
        queue |-> q0 \o ready,
        ready |-> ready]

\* Ok(binary) popped from done
HandleOk ==
    /\ pc = "drain"
    /\ done # <<>>
    /\ Head(done).ok
    /\ LET job_index == Head(done).job
           after == AfterOk(work, queue, Head(done))
       IN /\ queue' = after.queue
          /\ pushes' = BumpAll(pushes, after.ready)
          /\ work' = after.work
          /\ log' = log \o <<LogEntry(IF is_fresh(after.work[job_index])
                                       THEN "set_fresh" ELSE "set_none",
                                       job_index, 0, <<>>, TRUE)>>
    /\ done' = Tail(done)
    /\ UNCHANGED <<inputVars, cache, curr_layer, next_layer, visits, pc,
                   pending, layer, bins, work0, printed, result>>

\* bail!("one or more packages couldn't be built")
BailError == [kind |-> "one or more packages couldn't be built", job |-> -1]

\* HandleErr that prints the error and goes on draining instead of bailing
M_HandleErrKeepsDraining ==
    /\ pc = "drain"
    /\ done # <<>>
    /\ ~Head(done).ok
    /\ printed' = Append(printed, Head(done).err)
    /\ done' = Tail(done)
    /\ UNCHANGED <<inputVars, cache, work, curr_layer, next_layer, visits, pc,
                   queue, pending, layer, bins, pushes, work0, log, result>>

\* Err(err) popped from done: print it and bail
HandleErr ==
    /\ pc = "drain"
    /\ done # <<>>
    /\ ~Head(done).ok
    /\ printed' = Append(printed, Head(done).err)
    /\ result' = [status |-> "err", err |-> BailError, libs |-> <<>>, bins |-> <<>>]
    /\ done' = Tail(done)
    /\ pc' = "returned"
    /\ UNCHANGED <<inputVars, cache, work, curr_layer, next_layer, visits,
                   queue, pending, layer, bins, pushes, work0, log>>

\* done.try_pop() returns None: back to the top of the loop
DrainEnd ==
    /\ pc = "drain"
    /\ done = <<>>
    /\ pc' = "loop"
    /\ UNCHANGED <<inputVars, cache, work, curr_layer, next_layer, visits,
                   queue, pending, layer, done, bins, pushes, work0, log, printed, result>>

\* b.target.path().to_owned(): the directory of a Binary, a PathBuf that
\* holds no lock
target_path(b) == [path |-> b.hash]

\* root_children handing out the Binary handles instead of their paths
M_root_children_Binaries ==
    LET fresh == SelectSeq(children(0), LAMBDA c : is_fresh(work[c]))
    IN [i \in 1 .. Len(fresh) |-> work[fresh[i]].bin]

\* root_children without the test for Work::Fresh
M_root_childrenUnfiltered ==
    [i \in 1 .. Len(children(0)) |-> target_path(work[children(0)[i]].bin)]

\* the paths of the children of node 0 that are still Fresh
root_children ==
    LET fresh == SelectSeq(children(0), LAMBDA c : is_fresh(work[c]))
    IN [i \in 1 .. Len(fresh) |-> target_path(work[fresh[i]].bin)]

\* queue.is_empty(): break, and Ok((root_children, bins_vec))
ExecReturns ==
    /\ pc = "loop"
    /\ queue = <<>>
    /\ result' = [status |-> "ok", err |-> NoErr, libs |-> root_children, bins |-> bins]
    /\ bins' = <<>>
    /\ pc' = "returned"
    /\ UNCHANGED <<inputVars, cache, work, curr_layer, next_layer, visits,
                   queue, pending, layer, done, pushes, work0, log, printed>>

Next ==
    \/ NewLayer
    \/ \E node \in DOMAIN work, hit \in BOOLEAN : Visit(node, hit)
    \/ \E node \in DOMAIN work : VisitFails(node)
    \/ NewReturns
    \/ ExecStart
    \/ Dispatch
    \/ \E i \in 1 .. Len(pending) : \E failAt \in 0 .. Len(JobSteps(pending[i].job)) : RunJob(i, failAt)
    \/ LayerJoin
    \/ HandleOk
    \/ HandleErr
    \/ DrainEnd
    \/ ExecReturns

Spec == Init /\ [][Next]_vars

\* The pool runs every closure it was given, and exec runs on.
FairSpec == Spec /\ WF_vars(Next)

\* ------------------------------------------------------------- Targets::new alone
\* The targets of the lists handed to Targets::new.
TargetUniverse ==
    {Lib, Doc} \cup {Bin(i) : i \in 0 .. MaxIndex} \cup {Test(i) : i \in 0 .. MaxIndex}

TargetsInit ==
    /\ BuildIdle
    /\ tchain \in {<<xs>> : xs \in SeqsUpTo(TargetUniverse, MaxLen)}
    /\ call = NoCall
    /\ ret = NoRet
    /\ pair = <<>>
    /\ bytes = <<>>
    /\ entries = <<>>
    /\ sum = 0
    /\ incs = NotCalled

\* Targets::new(xs) first, then Targets::new of the list it returned.
TargetsApply ==
    /\ tchain # <<>>
    /\ Len(tchain) < 3
    /\ tchain' = Append(tchain, TargetsNew(tchain[Len(tchain)]))
    /\ UNCHANGED <<buildVars, pair, bytes, entries, sum, incs, call, ret>>

TargetsSpec == TargetsInit /\ [][TargetsApply]_vars

\* ------------------------------------------------------------- Target::as_bytes alone
\* Low halves that reach each of the four bytes.
LoValues == {0, 1, 255, 256, 65536, 16777216}

UsizeValues == {Usize(hi, lo) : hi \in 0 .. MaxHi, lo \in LoValues}

\* Lib and Doc carry no index: their ix field is a filler of the same shape.
WideTargets ==
    {[k |-> "Lib", ix |-> Usize(0, 0)], [k |-> "Doc", ix |-> Usize(0, 0)]}
    \cup {Bin(x) : x \in UsizeValues} \cup {Test(x) : x \in UsizeValues}

BytesInit ==
    /\ BuildIdle
    /\ pair \in WideTargets \X WideTargets
    /\ call = NoCall
    /\ ret = NoRet
    /\ bytes = <<>>
    /\ tchain = <<>>
    /\ entries = <<>>
    /\ sum = 0
    /\ incs = NotCalled

\* as_bytes of both targets
Encode ==
    /\ pair # <<>>
    /\ bytes = <<>>
    /\ bytes' = <<as_bytes(pair[1]), as_bytes(pair[2])>>
    /\ UNCHANGED <<buildVars, tchain, pair, entries, sum, incs, call, ret>>

BytesSpec == BytesInit /\ [][Encode]_vars

\* ------------------------------------------------------------- Retriever::incompats alone
\* Constraints on a dependency are the non-empty sets of the versions of the
\* dependency that they allow.
DepVersions == {1, 2}
Constraints == (SUBSET DepVersions) \ {{}}

\* Constraint::relation: how the versions self allows stand to those other allows
relation(self, other) ==
    IF self = other THEN "Equal"
    ELSE IF other \subseteq self THEN "Superset"
    ELSE IF self \subseteq other THEN "Subset"
    ELSE IF self \cap other = {} THEN "Disjoint"
    ELSE "Overlapping"

\* Constraint::complement
complement(c) == DepVersions \ c

\* A dependency of an index entry.  The name stands for the name together
\* with the index it is resolved in.
Dep(name, req) == [name |-> name, req |-> req]

\* The dependencies of an entry: each of Q and R at most once.
DepLists ==
    {SelectSeq(<<Dep("Q", q), Dep("R", r)>>, LAMBDA d : d.req # {}) :
        q \in SUBSET DepVersions, r \in SUBSET DepVersions}

\* entries: the versions of the package in index order, with their entries.
\* The version of the entry at place i is i, its dependencies are f[i].
EntriesOf(f) == [i \in DOMAIN f |-> [ver |-> i, dependencies |-> f[i]]]

\* Versions 1.0.0 to 1.0.3 depend on Q = ^1, version 1.0.4 on Q = ^2.
ExampleEntries ==
    [i \in 1 .. 5 |-> [ver |-> i, dependencies |-> <<Dep("Q", IF i < 5 THEN {1} ELSE {2})>>]]

\* entries.get_index(i)
get_index(es, i) == es[i + 1]

\* for new_dep in new_deps { .. }: seen, and lower or upper, after the loop
RECURSIVE SeenIn(_, _, _, _)
SeenIn(dep, ver, new_deps, acc) ==
    IF new_deps = <<>> THEN acc
    ELSE LET new_dep == Head(new_deps)
             rel == relation(dep.req, new_dep.req)
             after == IF dep.name = new_dep.name
                      THEN IF rel = "Equal" \/ rel = "Superset"
                           THEN [seen |-> TRUE, bound |-> ver]
                           ELSE [acc EXCEPT !.seen = FALSE]
                      ELSE acc
         IN SeenIn(dep, ver, Tail(new_deps), after)

\* ScanLeft that goes on past an entry that does not refine the dependency
RECURSIVE M_ScanLeftNoBreak(_, _, _, _)
M_ScanLeftNoBreak(es, dep, lix, lower) ==
    IF lix > 0
    THEN LET new == get_index(es, lix - 1)
             r == SeenIn(dep, new.ver, new.dependencies, [seen |-> FALSE, bound |-> lower])
         IN M_ScanLeftNoBreak(es, dep, lix - 1, r.bound)
    ELSE [ix |-> lix, bound |-> lower]

\* while lix > 0 { .. }: lix and lower after the loop
RECURSIVE ScanLeft(_, _, _, _)
ScanLeft(es, dep, lix, lower) ==
    IF lix > 0
    THEN LET new == get_index(es, lix - 1)
             r == SeenIn(dep, new.ver, new.dependencies, [seen |-> FALSE, bound |-> lower])
         IN IF ~r.seen
            THEN [ix |-> lix, bound |-> r.bound]
            ELSE ScanLeft(es, dep, lix - 1, r.bound)
    ELSE [ix |-> lix, bound |-> lower]

\* ScanRight that takes every entry that declares the dependency, whatever
\* the relation of the constraints
RECURSIVE M_ScanRightAnyRelation(_, _, _, _)
M_ScanRightAnyRelation(es, dep, rix, upper) ==
    IF rix < Len(es) - 1
    THEN LET new == get_index(es, rix + 1)
         IN IF \A x \in 1 .. Len(new.dependencies) : new.dependencies[x].name # dep.name
            THEN [ix |-> rix, bound |-> upper]
            ELSE M_ScanRightAnyRelation(es, dep, rix + 1, new.ver)
    ELSE [ix |-> rix, bound |-> upper]

\* while rix < l - 1 { .. }: rix and upper after the loop
RECURSIVE ScanRight(_, _, _, _)
ScanRight(es, dep, rix, upper) ==
    IF rix < Len(es) - 1
    THEN LET new == get_index(es, rix + 1)
             r == SeenIn(dep, new.ver, new.dependencies, [seen |-> FALSE, bound |-> upper])
         IN IF ~r.seen
            THEN [ix |-> rix, bound |-> r.bound]
            ELSE ScanRight(es, dep, rix + 1, r.bound)
    ELSE [ix |-> rix, bound |-> upper]

\* enum Interval, and Range::new(nl, nu)
Unbounded == [kind |-> "Unbounded", v |-> 0]
Closed(v) == [kind |-> "Closed", v |-> v]
RangeNew(nl, nu) == [lower |-> nl, upper |-> nu]

\* IncompatOf that tests the left end only before it drops the bounds
M_IncompatOfLeftEnd(es, ix, ver, dep) ==
    LET left == ScanLeft(es, dep, ix, ver)
        right == ScanRight(es, dep, ix, ver)
        whole == left.ix = 0
        nl == IF whole THEN Unbounded ELSE Closed(left.bound)
        nu == IF whole THEN Unbounded ELSE Closed(right.bound)
    IN [cause |-> "Dependency", pkg |-> RangeNew(nl, nu),
        dep |-> dep.name, dep_not |-> complement(dep.req)]

\* Incompatibility::new(cs, IncompatibilityCause::Dependency) of one dep
IncompatOf(es, ix, ver, dep) ==
    LET left == ScanLeft(es, dep, ix, ver)
        right == ScanRight(es, dep, ix, ver)
        whole == left.ix = 0 /\ right.ix = Len(es) - 1
        nl == IF whole THEN Unbounded ELSE Closed(left.bound)
        nu == IF whole THEN Unbounded ELSE Closed(right.bound)
    IN [cause |-> "Dependency", pkg |-> RangeNew(nl, nu),
        dep |-> dep.name, dep_not |-> complement(dep.req)]

\* Retriever::incompats(pkg) for a package of an index, version its version
incompats(es, version) ==
    IF \A i \in 1 .. Len(es) : es[i].ver # version
    THEN [called |-> TRUE, ok |-> FALSE, res |-> <<>>]
    ELSE LET ix == (CHOOSE i \in 1 .. Len(es) : es[i].ver = version) - 1
             start_deps == get_index(es, ix).dependencies
         IN [called |-> TRUE, ok |-> TRUE,
             res |-> [k \in 1 .. Len(start_deps) |->
                         IncompatOf(es, ix, get_index(es, ix).ver, start_deps[k])]]

IncompatsInit ==
    /\ BuildIdle
    /\ \/ \E m \in 1 .. MaxEntries : \E f \in [1 .. m -> DepLists] : entries = EntriesOf(f)
       \/ entries = ExampleEntries
    /\ sum \in 0 .. Len(entries)
    /\ call = NoCall
    /\ ret = NoRet
    /\ incs = NotCalled
    /\ tchain = <<>>
    /\ pair = <<>>
    /\ bytes = <<>>

\* self.incompats(pkg)
IncompatsCall ==
    /\ entries # <<>>
    /\ ~incs.called
    /\ incs' = incompats(entries, sum)
    /\ UNCHANGED <<buildVars, tchain, pair, bytes, entries, sum, call, ret>>

IncompatsSpec == IncompatsInit /\ [][IncompatsCall]_vars

\* ------------------------------------------------------------- calls through call and ret
\* Nothing runs but the one function called through call and ret.
OnlyCall ==
    /\ BuildIdle
    /\ tchain = <<>>
    /\ pair = <<>>
    /\ bytes = <<>>
    /\ entries = <<>>
    /\ sum = 0
    /\ incs = NotCalled
    /\ ret = NoRet

\* What a call leaves alone.
callerVars == <<buildVars, tchain, pair, bytes, entries, sum, incs, call>>

\* ------------------------------------------------------------- Retriever::best alone
\* Versions are numbers; a constraint is the set of the versions it allows.
Versions == 1 .. MaxVersion

Ok(v) == [called |-> TRUE, ok |-> TRUE, val |-> v, err |-> "none"]
Err(kind) == [called |-> TRUE, ok |-> FALSE, val |-> 0, err |-> kind]

\* self.indices.select(&Summary::new(pkg, v)).ok(): the entry of v in the
\* index of a package that is resolved through an index
select(c, v) == c.res = "Index" /\ v \in c.index

\* self.cache.checkout_source(pkg, dir, version): the version of the source
\* checked out, 0 when the checkout fails.  The source of an index entry has
\* the version of the entry, a direct source has the version of its manifest,
\* and a checkout that asks for another version fails.
checkout_source(c, want) ==
    LET has == IF c.res = "Index" THEN want ELSE c.src_version
    IN IF c.avail /\ (want = 0 \/ want = has) THEN has ELSE 0

\* from_lockfile without the test con.satisfies(&v)
M_from_lockfileUnchecked(c) ==
    IF c.lock # 0
    THEN IF c.res = "Direct" \/ select(c, c.lock) THEN checkout_source(c, c.lock) ELSE 0
    ELSE 0

\* The version best takes from the lockfile, 0 when it takes none.
from_lockfile(c) ==
    IF c.lock # 0 /\ c.lock \in c.con
    THEN IF c.res = "Direct" \/ select(c, c.lock) THEN checkout_source(c, c.lock) ELSE 0
    ELSE 0

\* self.indices.entries(pkg): the versions of the index, ascending
index_entries(c) == SetToSeq(c.index)

\* from_index with pop and remove(0) exchanged
M_from_indexExchanged(c) ==
    LET sat == SelectSeq(index_entries(c), LAMBDA v : v \in c.con)
        pre == SelectSeq(sat, LAMBDA v : v \in c.pre)
        not_pre == SelectSeq(sat, LAMBDA v : v \notin c.pre)
    IN IF not_pre # <<>>
       THEN IF c.minimize THEN Ok(not_pre[Len(not_pre)]) ELSE Ok(not_pre[1])
       ELSE IF pre # <<>>
       THEN IF c.minimize THEN Ok(pre[Len(pre)]) ELSE Ok(pre[1])
       ELSE Err("PackageNotFound")

\* from_index that looks at no prerelease
M_from_indexStableOnly(c) ==
    LET sat == SelectSeq(index_entries(c), LAMBDA v : v \in c.con)
        not_pre == SelectSeq(sat, LAMBDA v : v \notin c.pre)
    IN IF not_pre # <<>>
       THEN IF ~c.minimize THEN Ok(not_pre[Len(not_pre)]) ELSE Ok(not_pre[1])
       ELSE Err("PackageNotFound")

\* The partition of the satisfying entries, and the choice in it.
from_index(c) ==
    LET sat == SelectSeq(index_entries(c), LAMBDA v : v \in c.con)
        pre == SelectSeq(sat, LAMBDA v : v \in c.pre)
        not_pre == SelectSeq(sat, LAMBDA v : v \notin c.pre)
    IN IF not_pre # <<>>
       THEN IF ~c.minimize THEN Ok(not_pre[Len(not_pre)]) ELSE Ok(not_pre[1])
       ELSE IF pre # <<>>
       THEN IF ~c.minimize THEN Ok(pre[Len(pre)]) ELSE Ok(pre[1])
       ELSE Err("PackageNotFound")

\* Retriever::best(pkg, con, minimize)
best(c) ==
    IF from_lockfile(c) # 0 THEN Ok(from_lockfile(c))
    ELSE IF c.res = "Direct"
    THEN IF checkout_source(c, 0) # 0 THEN Ok(checkout_source(c, 0)) ELSE Err("CannotDownload")
    ELSE IF c.res = "Root" THEN Ok(c.root_version)
    ELSE from_index(c)

BestInit ==
    /\ OnlyCall
    /\ \E res \in {"Index", "Direct", "Root"}, con \in SUBSET Versions, minimize \in BOOLEAN,
          lock \in 0 .. MaxVersion, avail \in BOOLEAN,
          index \in SUBSET Versions, pre \in SUBSET Versions, own \in Versions :
          /\ res # "Index" => index = {} /\ pre = {}
          /\ res = "Index" => own = 1
          /\ res = "Root" => avail
          /\ pre \subseteq index
          /\ call = [fn |-> "best", res |-> res, con |-> con, minimize |-> minimize,
                     lock |-> lock, avail |-> avail, index |-> index, pre |-> pre,
                     src_version |-> IF res = "Direct" THEN own ELSE 0,
                     root_version |-> IF res = "Root" THEN own ELSE 0]

\* self.best(pkg, con, minimize)
BestCall ==
    /\ call.fn = "best"
    /\ ~ret.called
    /\ ret' = best(call)
    /\ UNCHANGED callerVars

BestSpec == BestInit /\ [][BestCall]_vars

\* ------------------------------------------------------------- DirectRes::retrieve alone
\* Sha256 digests are numbers from 1; cksum = 0 is None.
Digests == 1 .. MaxHash

\* retrieve that unpacks the archive before it tests the checksum
M_retrieveUnpacksFirst(c) ==
    IF c.kind = "Tar"
    THEN IF c.scheme \in {"http", "https", "file"}
         THEN IF ~c.fetch_ok \/ ~c.read_ok THEN Err("CannotDownload")
              ELSE IF ~c.unpack_ok THEN [Err("CannotDownload") EXCEPT !.val = 1]
              ELSE IF c.cksum # 0 /\ c.cksum = c.hash THEN [Err("Checksum") EXCEPT !.val = 2]
              ELSE Ok(2)
         ELSE Err("CannotDownload")
    ELSE IF c.kind = "Git" THEN Err("unimplemented!")
    ELSE IF c.unpack_ok THEN Ok(2) ELSE Err("CannotDownload")

\* DirectRes::retrieve(&self, client, target).  val is what the call has put
\* into the target directory: 0 nothing, 1 what an unpack that failed has
\* left, 2 the source (the unpacked archive, or the link to the directory).
retrieve(c) ==
    IF c.kind = "Tar"
    THEN IF c.scheme \in {"http", "https", "file"}
         THEN IF ~c.fetch_ok \/ ~c.read_ok THEN Err("CannotDownload")
              ELSE IF c.cksum # 0 /\ c.cksum = c.hash THEN Err("Checksum")
              ELSE IF ~c.unpack_ok THEN [Err("CannotDownload") EXCEPT !.val = 1]
              ELSE Ok(2)
         ELSE Err("CannotDownload")
    ELSE IF c.kind = "Git" THEN Err("unimplemented!")
    ELSE IF c.unpack_ok THEN Ok(2) ELSE Err("CannotDownload")

RetrieveInit ==
    /\ OnlyCall
    /\ \E kind \in {"Tar", "Git", "Dir"}, scheme \in {"http", "https", "file", "ftp"},
          cksum \in 0 .. MaxHash, hash \in Digests,
          fetch_ok \in BOOLEAN, read_ok \in BOOLEAN, unpack_ok \in BOOLEAN :
          /\ kind # "Tar" => scheme = "file" /\ cksum = 0 /\ hash = 1 /\ fetch_ok /\ read_ok
          /\ kind = "Git" => unpack_ok
          /\ call = [fn |-> "retrieve", kind |-> kind, scheme |-> scheme, cksum |-> cksum,
                     hash |-> hash, fetch_ok |-> fetch_ok, read_ok |-> read_ok,
                     unpack_ok |-> unpack_ok]

\* res.retrieve(client, target)
RetrieveCall ==
    /\ call.fn = "retrieve"
    /\ ~ret.called
    /\ ret' = retrieve(call)
    /\ UNCHANGED callerVars

RetrieveSpec == RetrieveInit /\ [][RetrieveCall]_vars

\* ------------------------------------------------------------- from_str alone
\* A string is a sequence of tokens; "+", "://" and "#" are tokens of their
\* own.  The position of the first token t in s, 0 when there is none.
find(s, t) ==
    IF \E i \in 1 .. Len(s) : s[i] = t
    THEN CHOOSE i \in 1 .. Len(s) : s[i] = t /\ \A j \in 1 .. i - 1 : s[j] # t
    ELSE 0

\* Url::parse(url): a scheme, "://" and the rest; the part after the first
\* "#" is the fragment.
Url_parse(u) ==
    IF Len(u) >= 3 /\ u[1] \in {"http", "https", "file", "ftp"} /\ u[2] = "://"
    THEN [ok |-> TRUE, scheme |-> u[1],
          rest |-> IF find(u, "#") = 0 THEN u ELSE SubSeq(u, 1, find(u, "#") - 1),
          fragment |-> IF find(u, "#") = 0 THEN <<>> ELSE SubSeq(u, find(u, "#") + 1, Len(u)),
          has_fragment |-> find(u, "#") # 0]
    ELSE [ok |-> FALSE, scheme |-> "", rest |-> <<>>, fragment |-> <<>>, has_fragment |-> FALSE]

\* Checksum::from_str(x).ok(): "<fmt>=<hash>" with the format sha256
Checksum_from_str(x) ==
    IF Len(x) = 3 /\ x[1] = "sha256" /\ x[2] = "="
    THEN [some |-> TRUE, hash |-> x[3]]
    ELSE [some |-> FALSE, hash |-> ""]

\* The value of a resolution: its kind, its url and its checksum.
Parsed(kind, url, cksum) ==
    [called |-> TRUE, ok |-> TRUE, err |-> "none", kind |-> kind, url |-> url, cksum |-> cksum]
Rejected(kind) ==
    [called |-> TRUE, ok |-> FALSE, err |-> kind, kind |-> "", url |-> <<>>, cksum |-> Checksum_from_str(<<>>)]

\* <DirectRes as FromStr>::from_str(url)
DirectRes_from_str(s) ==
    LET at == find(s, "+")
        utype == SubSeq(s, 1, at - 1)
        url == Url_parse(SubSeq(s, at + 1, Len(s)))
    IN IF at = 0 THEN Rejected("InvalidSourceUrl")
       ELSE IF utype = <<"git">> THEN Rejected("unimplemented!")
       ELSE IF utype = <<"dir">>
       THEN IF ~url.ok THEN Rejected("InvalidSourceUrl")
            ELSE IF url.scheme # "file" THEN Rejected("InvalidSourceUrl")
            ELSE Parsed("Dir", SubSeq(s, at + 1, Len(s)), Checksum_from_str(<<>>))
       ELSE IF utype = <<"tar">>
       THEN IF ~url.ok THEN Rejected("InvalidSourceUrl")
            ELSE IF url.scheme # "http" \/ url.scheme # "https" \/ url.scheme # "file"
            THEN Rejected("InvalidSourceUrl")
            ELSE Parsed("Tar", url.rest,
                        IF url.has_fragment THEN Checksum_from_str(url.fragment) ELSE Checksum_from_str(<<>>))
       ELSE Rejected("InvalidSourceUrl")

\* <IndexRes as FromStr>::from_str(url)
IndexRes_from_str(s) ==
    LET at == find(s, "+")
        utype == SubSeq(s, 1, at - 1)
        url == Url_parse(SubSeq(s, at + 1, Len(s)))
    IN IF at = 0 THEN Rejected("InvalidSourceUrl")
       ELSE IF utype = <<"index">>
       THEN IF ~url.ok THEN Rejected("InvalidSourceUrl")
            ELSE Parsed("Index", SubSeq(s, at + 1, Len(s)), Checksum_from_str(<<>>))
       ELSE Rejected("InvalidSourceUrl")

FromStrInit ==
    /\ OnlyCall
    /\ \E fn \in {"DirectRes::from_str", "IndexRes::from_str"},
          kind \in {"tar", "dir", "index", "git", "zip"}, plus \in BOOLEAN,
          scheme \in {"http", "https", "file", "ftp", ""},
          path \in {<<"host/a">>, <<"host/a", "+", "b">>},
          fragment \in {<<>>, <<"#", "sha256", "=", "ab">>, <<"#", "junk">>} :
          call = [fn |-> fn,
                  s |-> <<kind>> \o (IF plus THEN <<"+">> ELSE <<>>)
                        \o (IF scheme # "" THEN <<scheme, "://">> ELSE <<>>)
                        \o path \o fragment]

\* DirectRes::from_str(s)
DirectFromStr ==
    /\ call.fn = "DirectRes::from_str"
    /\ ~ret.called
    /\ ret' = DirectRes_from_str(call.s)
    /\ UNCHANGED callerVars

\* IndexRes::from_str(s)
IndexFromStr ==
    /\ call.fn = "IndexRes::from_str"
    /\ ~ret.called
    /\ ret' = IndexRes_from_str(call.s)
    /\ UNCHANGED callerVars

FromStrSpec == FromStrInit /\ [][DirectFromStr \/ IndexFromStr]_vars

\* ------------------------------------------------------------- the lockfile alone
\* A Summary is a node number; the Summary of resolution Root is 0.
\* The sequences that hold every element of S once: the orders in which
\* sub_tree and children may yield the nodes.
Orders(S) == {s \in [1 .. Cardinality(S) -> S] : Range(s) = S}

\* The dependency lists of the packages s, one order of the children each.
RECURSIVE DependencyLists(_, _)
DependencyLists(g, s) ==
    IF s = <<>> THEN {<<>>}
    ELSE {<<d>> \o r : d \in Orders({c \in Nodes : <<Head(s), c>> \in g}),
                     r \in DependencyLists(g, Tail(s))}

\* Introduce without the test contains_key
M_IntroduceAlways(s, x) == Append(s, x)

\* if set.contains_key(&sum) { set[&sum] } else { tree.add_node(sum) .. },
\* and the insertion of IndexSet::from_iter: s with x at the end unless s
\* holds x
Introduce(s, x) == IF x \in Range(s) THEN s ELSE Append(s, x)

RECURSIVE IndexSet_from_iter(_)
IndexSet_from_iter(s) ==
    IF s = <<>> THEN <<>>
    ELSE Introduce(IndexSet_from_iter(SubSeq(s, 1, Len(s) - 1)), s[Len(s)])

\* set[&sum]: the node index of a summary (the latest node that holds it)
nix_of(nodes, x) == CHOOSE i \in 1 .. Len(nodes) : nodes[i] = x /\ \A j \in i + 1 .. Len(nodes) : nodes[j] # x

\* for dep in pkg.dependencies { .. tree.add_edge(nix, dep_nix, ()) }
RECURSIVE AddDependencies(_, _, _)
AddDependencies(t, nix, dependencies) ==
    IF dependencies = <<>> THEN t
    ELSE LET nodes == Introduce(t.nodes, Head(dependencies))
         IN AddDependencies([nodes |-> nodes,
                             edges |-> Append(t.edges, <<nix, nix_of(nodes, Head(dependencies))>>)],
                            nix, Tail(dependencies))

\* for pkg in f.packages { .. }
RECURSIVE AddPackages(_, _)
AddPackages(t, pkgs) ==
    IF pkgs = <<>> THEN t
    ELSE LET nodes == Introduce(t.nodes, Head(pkgs).sum)
         IN AddPackages(AddDependencies([nodes |-> nodes, edges |-> t.edges],
                                        nix_of(nodes, Head(pkgs).sum),
                                        Head(pkgs).dependencies),
                        Tail(pkgs))

LockfileInit ==
    /\ OnlyCall
    /\ \E g \in Graphs : call = [fn |-> "lockfile", g |-> g]

\* let toml: LockfileToml = graph.into()
IntoLockfile ==
    /\ call.fn = "lockfile"
    /\ ~ret.called
    /\ \E rest \in Orders(ReachableFrom({0}, call.g) \ {0}) :
          \E dl \in DependencyLists(call.g, <<0>> \o rest) :
              ret' = [called |-> TRUE, stage |-> "toml",
                      packages |-> IndexSet_from_iter(
                          [i \in 1 .. Len(dl) |->
                              [sum |-> (<<0>> \o rest)[i], dependencies |-> dl[i]]]),
                      nodes |-> <<>>, edges |-> <<>>]
    /\ UNCHANGED callerVars

\* let graph: Graph<Summary> = toml.into()
FromLockfile ==
    /\ call.fn = "lockfile"
    /\ ret.called
    /\ ret.stage = "toml"
    /\ ret' = [ret EXCEPT !.stage = "graph",
                          !.nodes = AddPackages([nodes |-> <<>>, edges |-> <<>>], ret.packages).nodes,
                          !.edges = AddPackages([nodes |-> <<>>, edges |-> <<>>], ret.packages).edges]
    /\ UNCHANGED callerVars

LockfileSpec == LockfileInit /\ [][IntoLockfile \/ FromLockfile]_vars

\* ------------------------------------------------------------- Manifest::from_str alone
\* A manifest text is what it holds: a [package] table that deserializes or
\* not, a [targets] table or none, in it a lib target (none, one that
\* deserializes, one that does not), bin targets and test targets.

\* Manifest::from_str with || between the two tests of line 97
M_manifest_from_strEither(m) ==
    IF ~m.package_ok \/ ~m.targets \/ m.lib = "invalid" \/ (m.nbin > 0 /\ ~m.bins_ok)
    THEN Err("invalid manifest file")
    ELSE IF m.lib = "none" \/ m.nbin = 0
    THEN Err("manifests must define at least either a bin or lib target")
    ELSE Ok(0)

\* <Manifest as FromStr>::from_str(raw); Ok(0) is Ok(toml)
manifest_from_str(m) ==
    IF ~m.package_ok \/ ~m.targets \/ m.lib = "invalid" \/ (m.nbin > 0 /\ ~m.bins_ok)
    THEN Err("invalid manifest file")
    ELSE IF m.lib = "none" /\ m.nbin = 0
    THEN Err("manifests must define at least either a bin or lib target")
    ELSE Ok(0)

ManifestInit ==
    /\ OnlyCall
    /\ \E package_ok \in BOOLEAN, tg \in BOOLEAN, lib \in {"none", "valid", "invalid"},
          nbin \in 0 .. MaxTargets, bins_ok \in BOOLEAN, ntest \in 0 .. MaxTargets :
          /\ ~tg => lib = "none" /\ nbin = 0 /\ ntest = 0
          /\ nbin = 0 => bins_ok
          /\ call = [fn |-> "Manifest::from_str", package_ok |-> package_ok, targets |-> tg,
                     lib |-> lib, nbin |-> nbin, bins_ok |-> bins_ok, ntest |-> ntest]

\* Manifest::from_str(raw)
ManifestCall ==
    /\ call.fn = "Manifest::from_str"
    /\ ~ret.called
    /\ ret' = manifest_from_str(call)
    /\ UNCHANGED callerVars

ManifestSpec == ManifestInit /\ [][ManifestCall]_vars

\* ---- exec on a graph of one more package ----
\* The same JobQueue::new and exec, on the resolved graphs of NumNodes + 1
\* packages, for a library root that was never built.
WideNodes == 0 .. NumNodes

WideGraphs ==
    {E \in SUBSET {e \in WideNodes \X WideNodes : e[1] < e[2]} :
        ReachableFrom({0}, E) = WideNodes}

WideInit ==
    /\ FnIdle
    /\ edges \in WideGraphs
    /\ cache = {}
    /\ root_ol = "absent"
    /\ rootTargets = TargetsNew(<<Lib>>)
    /\ work = [n \in WideNodes |-> WorkNone]
    /\ curr_layer = {}
    /\ next_layer = {0}
    /\ visits = [n \in WideNodes |-> 0]
    /\ pc = "new"
    /\ queue = <<>>
    /\ pending = <<>>
    /\ layer = <<>>
    /\ done = <<>>
    /\ bins = <<>>
    /\ pushes = [n \in WideNodes |-> 0]
    /\ work0 = [n \in WideNodes |-> WorkNone]
    /\ log = <<>>
    /\ printed = <<>>
    /\ result = NoResult

WideSpec == WideInit /\ [][Next]_vars

\* ------------------------------------------------------------- properties
LogIdx == 1 .. Len(log)
Count(ev, n) == Cardinality({i \in LogIdx : log[i].ev = ev /\ log[i].job = n})
Returned == pc = "returned"
ReturnedOk == pc = "returned" /\ result.status = "ok"
ReturnedErr == pc = "returned" /\ result.status = "err"
Executing == pc \in {"loop", "layer", "drain", "returned"}
ColdCache == \A n \in Nodes : is_dirty(work0[n])
Diamond == {<<0, 1>>, <<0, 2>>, <<1, 3>>, <<2, 3>>}

\* C1: once a JobQueue is constructed, exec returns; and when it has returned,
\* it returned an error or no node of the graph is Dirty any more.
C1_ExecutorLiveness ==
    /\ (pc = "constructed") ~> Returned
    /\ [](Returned => (result.status = "err" \/ \A n \in Nodes : ~is_dirty(work[n])))

\* C1 witness: a graph whose nodes were all Dirty or Fresh, at least three of
\* them Dirty, has been executed to a successful return.
C1_Witness ==
    /\ ReturnedOk
    /\ \A n \in Nodes : ~is_none(work0[n])
    /\ Cardinality({n \in Nodes : is_dirty(work0[n])}) >= 3
    /\ \A n \in Nodes : ~is_dirty(work[n])

\* C2: every job of the layer being dispatched is Dirty and all its children
\* are Fresh (the graph is not touched while the layer runs).
C2_DispatchPrecondition ==
    pc = "layer" =>
        \A j \in Range(layer) :
            /\ is_dirty(work[j])
            /\ \A c \in Nodes : <<j, c>> \in edges => is_fresh(work[c])

\* C2 witness: a job queued by the refill after a layer, with two children, is
\* being dispatched.
C2_Witness ==
    /\ pc = "layer"
    /\ \E j \in Range(layer) :
          /\ Cardinality({c \in Nodes : <<j, c>> \in edges}) >= 2
          /\ \E c \in Nodes : <<j, c>> \in edges /\ is_dirty(work0[c])

\* C3: no node is put on the queue, dispatched, run or compiled twice, and when
\* exec has returned Ok every node that was Dirty when it began was dispatched
\* and run exactly once (its library compiled once when it has a Lib target).
C3_CompiledOnce ==
    /\ \A n \in Nodes :
          /\ pushes[n] <= 1
          /\ Count("dispatch", n) <= 1
          /\ Count("finish", n) <= 1
          /\ Count("compile_lib", n) <= 1
    /\ ReturnedOk =>
          \A n \in Nodes :
              is_dirty(work0[n]) =>
                  /\ Count("dispatch", n) = 1
                  /\ Count("finish", n) = 1
                  /\ (\E i \in 1 .. Len(targets(n)) : targets(n)[i] = Lib)
                        => Count("compile_lib", n) = 1

\* C3 witness: the diamond R -> {B, C} -> D, all Dirty, built successfully.
C3_Witness ==
    /\ ReturnedOk
    /\ edges = Diamond
    /\ ColdCache
    /\ Count("compile_lib", 3) = 1
    /\ Count("compile_lib", 0) = 1

\* C4: when a successful result of job j is handled, a child of j is None
\* afterwards exactly when all its parents are Fresh at that moment (j with its
\* new work, the others as they were); no step sets a node to None while one
\* of its parents is Dirty; and in the cold diamond D is None exactly when
\* neither B nor C is Dirty any more.
C4_EvictionRule ==
    /\ [][(pc = "drain" /\ done # <<>> /\ Head(done).ok /\ done' = Tail(done)) =>
            \A c \in Nodes :
                <<Head(done).job, c>> \in edges =>
                    (is_none(work'[c]) <=>
                        \A p \in Nodes :
                            <<p, c>> \in edges =>
                                IF p = Head(done).job THEN is_fresh(work'[p])
                                ELSE is_fresh(work[p]))]_vars
    /\ [][\A c \in Nodes :
            (is_fresh(work[c]) /\ is_none(work'[c])) =>
                \A p \in Nodes : <<p, c>> \in edges => ~is_dirty(work'[p])]_vars
    /\ []((Executing /\ edges = Diamond /\ ColdCache) =>
            (is_none(work[3]) <=> (~is_dirty(work[1]) /\ ~is_dirty(work[2]))))

\* C4 witness: in the cold diamond B and C are Fresh, D has been evicted and
\* R is still to be built.
C4_Witness ==
    /\ edges = Diamond
    /\ ColdCache
    /\ is_fresh(work[1])
    /\ is_fresh(work[2])
    /\ is_none(work[3])
    /\ is_dirty(work[0])

FailedJobs == {log[i].job : i \in {k \in LogIdx : log[k].ev = "finish" /\ ~log[k].ok}}

\* C5: once the layer has been joined, every job dispatched in it has run to
\* its end, whether or not another job of the layer failed; nothing is
\* dispatched after a job has failed; and a run in which a job failed returns
\* an error.
C5_FailureContainment ==
    /\ pc \in {"drain", "returned"} => \A j \in Range(layer) : Count("finish", j) = 1
    /\ \A i \in LogIdx : \A k \in LogIdx :
          (i < k /\ log[i].ev = "finish" /\ ~log[i].ok) => log[k].ev # "dispatch"
    /\ (Returned /\ FailedJobs # {}) => result.status = "err"

\* C5 witness: exec returned an error after a layer of two jobs, the first of
\* which failed and the second of which completed.
C5_Witness ==
    /\ ReturnedErr
    /\ Len(layer) = 2
    /\ \E i \in LogIdx : log[i].ev = "finish" /\ log[i].job = layer[1] /\ ~log[i].ok
    /\ \E i \in LogIdx : log[i].ev = "finish" /\ log[i].job = layer[2] /\ log[i].ok

\* The error with which a job failed: that of the step of it that failed.
FailureOf(j) ==
    {[kind |-> IF log[i].ev \in {"compile_lib", "compile_bin", "compile_test"}
               THEN "CompileFailed" ELSE "Io",
      job |-> j] : i \in {k \in LogIdx : log[k].job = j /\ ~log[k].ok /\ log[k].ev # "finish"}}

\* C6 as claimed: the error exec returns is the error of a worker that failed.
C6_ReturnsUnderlyingError ==
    ReturnedErr => \E j \in FailedJobs : result.err \in FailureOf(j)

\* C6 as amended: exec returns the fixed error "one or more packages couldn't
\* be built"; the error of a worker is printed, once, and it is the error of
\* the first failed job of the layer in the order of done.
C6_ErrorPrintedOnce ==
    /\ Len(printed) <= 1
    /\ ReturnedErr =>
          /\ result.err.kind = "one or more packages couldn't be built"
          /\ Len(printed) = 1
          /\ printed[1].job \in FailedJobs
          /\ printed[1] \in FailureOf(printed[1].job)
          /\ \A i \in LogIdx :
                (log[i].ev = "finish" /\ ~log[i].ok) =>
                    \E k \in LogIdx :
                        k <= i /\ log[k].ev = "finish" /\ log[k].job = printed[1].job
    /\ (Returned /\ ~ReturnedErr) => printed = <<>>

\* C6 witness: exec returned an error after a layer in which two jobs failed.
C6_Witness ==
    /\ ReturnedErr
    /\ Cardinality(FailedJobs) = 2
    /\ printed[1].kind = "CompileFailed"

RECURSIVE Descendants(_)
Descendants(n) ==
    LET cs == {c \in Nodes : <<n, c>> \in edges}
    IN cs \cup UNION {Descendants(c) : c \in cs}

\* C7 as claimed: every transitive dependency of a job being dispatched is Fresh.
C7_TransitiveFresh ==
    pc = "layer" => \A j \in Range(layer) : \A d \in Descendants(j) : is_fresh(work[d])

\* The dependencies of n reached through nodes that were Dirty when exec began.
RECURSIVE BuiltBelow(_)
BuiltBelow(n) ==
    LET cs == {c \in Nodes : <<n, c>> \in edges}
    IN cs \cup UNION {BuiltBelow(c) : c \in {x \in cs : is_dirty(work0[x])}}

\* C7 as amended: every child of a job being dispatched is Fresh, and every
\* transitive dependency reached through nodes that this run had to build
\* has been built: it is Fresh, or was Fresh and has been evicted.
C7_ChildrenFreshDepsBuilt ==
    pc = "layer" =>
        \A j \in Range(layer) :
            /\ \A c \in Nodes : <<j, c>> \in edges => is_fresh(work[c])
            /\ \A d \in BuiltBelow(j) :
                  /\ ~is_dirty(work[d])
                  /\ ~is_none(work0[d])
                  /\ is_dirty(work0[d]) => Count("set_fresh", d) = 1

\* C7 witness: a job is being dispatched while a dependency of a child of it,
\* built in this run, has already been evicted.
C7_Witness ==
    /\ pc = "layer"
    /\ \E j \in Range(layer) : \E d \in BuiltBelow(j) :
          /\ <<j, d>> \notin edges
          /\ is_dirty(work0[d])
          /\ is_none(work[d])

Handled(n) == Count("set_fresh", n) + Count("set_none", n) > 0

\* C8 as claimed, for a root that builds its library and an empty cache: a
\* node all of whose parents have completed is no longer Fresh, and when exec
\* has returned Ok no node but the root is Fresh.
C8_EagerRelease ==
    (rootTargets = <<Lib>> /\ ColdCache) =>
    /\ \A c \in Nodes :
          (pc \in {"drain", "loop", "returned"}
             /\ (\E p \in Nodes : <<p, c>> \in edges)
             /\ \A p \in Nodes : <<p, c>> \in edges => Handled(p))
          => ~is_fresh(work[c])
    /\ ReturnedOk => \A n \in Nodes \ {0} : ~is_fresh(work[n])

IsCompileEv(e) == e.ev \in {"compile_lib", "compile_bin", "compile_test"}

\* C9: whenever a job P compiles, each child A of P that was Dirty when exec
\* began has before that, in this order, compiled its library, stored it with
\* store_build and become Fresh, and the stored Binary of A is among the deps
\* of the compile; the root never calls store_build.
C9_StoreOrdering ==
    /\ \A k \in LogIdx :
          IsCompileEv(log[k]) =>
              \A a \in Nodes :
                  (<<log[k].job, a>> \in edges /\ is_dirty(work0[a])) =>
                      /\ \E i \in LogIdx, j \in LogIdx, l \in LogIdx :
                            /\ i < j /\ j < l /\ l < k
                            /\ log[i].ev = "compile_lib" /\ log[i].job = a /\ log[i].ok
                            /\ log[j].ev = "store_build" /\ log[j].job = a /\ log[j].ok
                            /\ log[l].ev = "set_fresh" /\ log[l].job = a
                      /\ \E x \in 1 .. Len(log[k].deps) :
                            log[k].deps[x] = [hash |-> a, via |-> "store_build"]
    /\ \A k \in LogIdx : log[k].ev = "store_build" => log[k].job # 0

\* C9 witness: the root compiled its library with a dependency built and
\* stored in this run.
C9_Witness ==
    \E k \in LogIdx :
        /\ log[k].ev = "compile_lib"
        /\ log[k].job = 0
        /\ \E a \in Nodes : <<0, a>> \in edges /\ is_dirty(work0[a])

\* C10: a node that was Fresh from the cache when exec began is never
\* dispatched and runs no step, and each compile of a parent of it has its
\* cached Binary among the deps.
C10_WarmCache ==
    \A n \in Nodes :
        is_fresh(work0[n]) =>
            /\ \A k \in LogIdx : log[k].job = n => log[k].ev \notin
                  {"dispatch", "checkout_tmp", "compile_lib", "compile_bin", "compile_test",
                   "store_build", "acquire_lib", "acquire_build_lib", "finish"}
            /\ \A k \in LogIdx :
                  (IsCompileEv(log[k]) /\ <<log[k].job, n>> \in edges) =>
                      \E x \in 1 .. Len(log[k].deps) :
                          log[k].deps[x] = [hash |-> n, via |-> "checkout_build"]

\* C10 witness: a Dirty parent compiled with the Binary of a child that new
\* had checked out of the cache, and that child was never dispatched.
C10_Witness ==
    \E k \in LogIdx : \E n \in Nodes :
        /\ IsCompileEv(log[k])
        /\ <<log[k].job, n>> \in edges
        /\ is_fresh(work0[n])
        /\ work0[n].bin.via = "checkout_build"
        /\ Returned

\* ------------------------------------------------------------- JobQueue::new
RootBuilt == root_ol = "built"

\* C11: in every step of new that visits a node, the node gets Work::None iff
\* it is the root and the root layout is built; otherwise Fresh iff
\* checkout_build found its build in the cache; otherwise Dirty; and
\* next_layer gains the node's unclassified children when the node is Dirty
\* and nothing otherwise.
C11_Classification ==
    [][\A n \in Nodes :
          visits'[n] # visits[n] =>
              /\ is_none(work'[n]) <=> (n = 0 /\ RootBuilt)
              /\ ~(n = 0 /\ RootBuilt) => (is_fresh(work'[n]) <=> n \in cache')
              /\ ~(n = 0 /\ RootBuilt) => (is_dirty(work'[n]) <=> n \notin cache')
              /\ is_dirty(work'[n]) =>
                     next_layer' = next_layer \cup
                         {c \in Nodes : <<n, c>> \in edges /\ is_none(work[c])}
              /\ ~is_dirty(work'[n]) => next_layer' = next_layer]_vars

\* C11 witness: new has classified one node Fresh and another Dirty, and the
\* Dirty one has put a child on next_layer.
C11_Witness ==
    /\ pc = "new"
    /\ \E a, b \in Nodes :
          /\ visits[a] > 0 /\ is_fresh(work[a])
          /\ visits[b] > 0 /\ is_dirty(work[b])
          /\ \E c \in next_layer : <<b, c>> \in edges

\* The nodes new can reach from the root without passing through a Fresh
\* node or a built root.
OpenEdges == {e \in edges : ~is_fresh(work[e[1]]) /\ ~(e[1] = 0 /\ RootBuilt)}
OpenNodes == ReachableFrom({0}, OpenEdges)

\* C12: when new has returned, a node other than the root is Dirty only if a
\* parent of it is Dirty, a node other than the root was visited only if a
\* parent of it is Dirty, and a node that every path from the root reaches
\* only through a Fresh node or a built root is unvisited and Work::None.
C12_Layering ==
    pc = "constructed" =>
        \A n \in Nodes \ {0} :
            /\ is_dirty(work[n]) => \E p \in Range(parents(n)) : is_dirty(work[p])
            /\ visits[n] > 0 => \E p \in Range(parents(n)) : is_dirty(work[p])
            /\ ~is_none(work[n]) => visits[n] > 0
            /\ n \notin OpenNodes => visits[n] = 0 /\ is_none(work[n])

\* C12 witness: new has returned with a Fresh node whose child was never
\* visited, and with a Dirty node below the root.
C12_Witness ==
    /\ pc = "constructed"
    /\ \E f, c, d \in Nodes \ {0} :
          /\ is_fresh(work[f]) /\ <<f, c>> \in edges
          /\ visits[c] = 0 /\ is_none(work[c])
          /\ is_dirty(work[d])

\* ------------------------------------------------------------- handles
IsBinary(v) == "via" \in DOMAIN v

\* The lock-holding handles the JobQueue and the locals of exec own: the
\* Binary of a Fresh job, the Source of a Dirty job, the root OutputLayout,
\* the Binary of a result waiting in done, the deps cloned into a closure.
Owned ==
    {<<"Binary", work[n].bin>> : n \in {m \in Nodes : is_fresh(work[m])}}
    \cup {<<"Source", n>> : n \in {m \in Nodes : is_dirty(work[m])}}
    \cup (IF root_ol # "absent" THEN {<<"OutputLayout", 0>>} ELSE {})
    \cup {<<"Binary", done[i].bin>> : i \in {j \in 1 .. Len(done) : done[j].bin # NoBin}}
    \cup UNION {{<<"Binary", pending[i].deps[k]>> : k \in 1 .. Len(pending[i].deps)} :
                  i \in 1 .. Len(pending)}

\* exec(mut self, ..) owns the JobQueue: when it returns, the graph, root_ol,
\* done and bins are dropped, and what is still held is what the value it
\* returned carries.
Held ==
    IF pc = "returned"
    THEN {<<"Binary", result.libs[i]>> : i \in {j \in 1 .. Len(result.libs) : IsBinary(result.libs[j])}}
    ELSE Owned

C14_GraphIsolation ==
    [][/\ (Executing /\ work' # work) => (pc = "drain" /\ pending = <<>>)
       /\ (pc = "layer" /\ pending' # pending) =>
              UNCHANGED <<work, queue, layer, pushes, printed, result, pc>>]_vars

\* C14 witness: a layer of two jobs has been joined and the result of one of
\* them has set its Work.
C14_Witness ==
    /\ pc = "drain"
    /\ Len(layer) >= 2
    /\ done # <<>>
    /\ \E n \in Range(layer) : is_fresh(work[n]) /\ is_dirty(work0[n])

\* ------------------------------------------------------------- Targets::new
\* The lists Targets::new returned, each with the list it was given.
Normalized == 2 .. Len(tchain)
HasTestOrDoc(ts) == \E i \in 1 .. Len(ts) : ts[i].k \in {"Test", "Doc"}
BinIndexes(ts) ==
    LET b == SelectSeq(ts, LAMBDA t : t.k = "Bin") IN [i \in 1 .. Len(b) |-> b[i].ix]

\* C15: Targets::new(Targets::new(xs).0) == Targets::new(xs) for every xs.
C15_Idempotent == Len(tchain) = 3 => tchain[3] = tchain[2]

\* C16: the list Targets::new returns holds no Target twice, a repeated
\* Bin(i) included, and its Bin targets are in ascending order of index.
C16_Deduplicated ==
    \A k \in Normalized :
        /\ \A i, j \in 1 .. Len(tchain[k]) : i # j => tchain[k][i] # tchain[k][j]
        /\ \A i, j \in 1 .. Len(BinIndexes(tchain[k])) :
              i < j => BinIndexes(tchain[k])[i] <= BinIndexes(tchain[k])[j]

\* C17: when the list given to Targets::new, or the list it returns, holds a
\* Test or a Doc, the list it returns has Lib at position 0.
C17_LibFirst ==
    \A k \in Normalized :
        (HasTestOrDoc(tchain[k - 1]) \/ HasTestOrDoc(tchain[k])) =>
            /\ tchain[k] # <<>>
            /\ tchain[k][1] = Lib

\* C17 witness: a list with a Bin and a Test and no Lib was normalized, and
\* Lib came out in front of the Bin.
C17_Witness ==
    /\ Len(tchain) >= 2
    /\ \A i \in 1 .. Len(tchain[1]) : tchain[1][i] # Lib
    /\ \E i \in 1 .. Len(tchain[1]) : tchain[1][i].k = "Bin"
    /\ \E i \in 1 .. Len(tchain[1]) : tchain[1][i].k = "Test"
    /\ Len(tchain[2]) >= 3
    /\ tchain[2][1] = Lib
    /\ tchain[2][2].k = "Bin"

\* C18: the list Targets::new returns holds at most one Lib.
C18_OneLib ==
    \A k \in Normalized :
        Cardinality({i \in 1 .. Len(tchain[k]) : tchain[k][i] = Lib}) <= 1

\* C18 witness: a list with Lib twice and a Doc was normalized and one Lib
\* came out.
C18_Witness ==
    /\ Len(tchain) >= 2
    /\ Cardinality({i \in 1 .. Len(tchain[1]) : tchain[1][i] = Lib}) >= 2
    /\ HasTestOrDoc(tchain[1])
    /\ Cardinality({i \in 1 .. Len(tchain[2]) : tchain[2][i] = Lib}) = 1

\* ------------------------------------------------------------- Target::as_bytes
\* C19: two different targets have different encodings, whatever their
\* indices, those of 2^32 and above included.
C19_Injective == (bytes # <<>> /\ pair[1] # pair[2]) => bytes[1] # bytes[2]

\* ------------------------------------------------------------- Retriever::incompats
\* The entry at place j declares d with a constraint that d's own is Equal
\* to or a Superset of.
Refined(j, d) ==
    \E x \in 1 .. Len(entries[j].dependencies) :
        /\ entries[j].dependencies[x].name = d.name
        /\ relation(d.req, entries[j].dependencies[x].req) \in {"Equal", "Superset"}

\* The places of the maximal contiguous run around sum of entries that refine d.
RunOf(d) ==
    {i \in 1 .. Len(entries) :
        \A j \in 1 .. Len(entries) :
            ((i <= j /\ j <= sum) \/ (sum <= j /\ j <= i)) => Refined(j, d)}
Lo(d) == CHOOSE i \in RunOf(d) : \A j \in RunOf(d) : i <= j
Hi(d) == CHOOSE i \in RunOf(d) : \A j \in RunOf(d) : j <= i

\* C20: for a package of an index, incompats returns one incompatibility for
\* each dependency d declared at the version, in order, and its range over
\* the package is [lo, hi], the ends of the maximal contiguous run around
\* the version of entries that refine d.
C20_RangeIsRun ==
    (incs.called /\ incs.ok) =>
        LET start_deps == entries[sum].dependencies
        IN /\ Len(incs.res) = Len(start_deps)
           /\ \A k \in 1 .. Len(start_deps) :
                 /\ incs.res[k].dep = start_deps[k].name
                 /\ incs.res[k].pkg =
                        RangeNew(Closed(entries[Lo(start_deps[k])].ver),
                                 Closed(entries[Hi(start_deps[k])].ver))

\* C20 as amended: the range is [lo, hi] unless the run is the whole index,
\* and then it is the unbounded range.
C20_RangeIsRunOrUnbounded ==
    (incs.called /\ incs.ok) =>
        LET start_deps == entries[sum].dependencies
        IN /\ Len(incs.res) = Len(start_deps)
           /\ \A k \in 1 .. Len(start_deps) :
                 LET d == start_deps[k]
                 IN /\ incs.res[k].dep = d.name
                    /\ incs.res[k].dep_not = complement(d.req)
                    /\ incs.res[k].pkg =
                           IF RunOf(d) = 1 .. Len(entries)
                           THEN RangeNew(Unbounded, Unbounded)
                           ELSE RangeNew(Closed(entries[Lo(d)].ver), Closed(entries[Hi(d)].ver))

\* C20 witness: the example of the claim.  For the version 1.0.2 the one
\* incompatibility ranges over [1.0.0, 1.0.3].
C20_Witness ==
    /\ entries = ExampleEntries
    /\ sum = 3
    /\ incs.called
    /\ incs.ok
    /\ Len(incs.res) = 1
    /\ incs.res[1].pkg = RangeNew(Closed(1), Closed(4))

\* C21: an incompatibility that incompats returns for a package of an index
\* is unbounded on both sides iff the widened run holds every entry of the
\* index; otherwise its bounds are closed at the lowest and the highest
\* version of the run.
C21_UnboundedIffWhole ==
    (incs.called /\ incs.ok) =>
        \A k \in 1 .. Len(incs.res) :
            LET d == entries[sum].dependencies[k]
                whole == \A j \in 1 .. Len(entries) : j \in RunOf(d)
                r == incs.res[k].pkg
            IN /\ (r.lower = Unbounded /\ r.upper = Unbounded) <=> whole
               /\ (r.lower = Unbounded \/ r.upper = Unbounded) => whole
               /\ ~whole => /\ r.lower = Closed(entries[Lo(d)].ver)
                            /\ r.upper = Closed(entries[Hi(d)].ver)

\* C21 witness: one call returned an unbounded incompatibility for one
\* dependency and a closed one, reaching the lowest version, for another.
C21_Witness ==
    /\ incs.called
    /\ incs.ok
    /\ Len(entries) >= 2
    /\ \E k, m \in 1 .. Len(incs.res) :
          /\ incs.res[k].pkg = RangeNew(Unbounded, Unbounded)
          /\ incs.res[m].pkg.lower = Closed(1)
          /\ incs.res[m].pkg.upper.kind = "Closed"
          /\ incs.res[m].pkg.upper.v < Len(entries)

\* ------------------------------------------------------------- Retriever::best
BestReturned == call.fn = "best" /\ ret.called

\* The lockfile names a version that satisfies the constraint and can be
\* checked out.
Usable ==
    /\ call.lock # 0
    /\ call.lock \in call.con
    /\ \/ call.res = "Index" /\ call.lock \in call.index /\ call.avail
       \/ call.res = "Direct" /\ call.avail /\ call.src_version = call.lock

Satisfying == call.index \cap call.con
Stable == Satisfying \ call.pre
Greatest(S) == CHOOSE v \in S : \A w \in S : w <= v
Least(S) == CHOOSE v \in S : \A w \in S : v <= w

\* C22: for a package of an index without a usable lockfile version, what
\* best returns is a stable satisfying version when there is one and a
\* satisfying prerelease only when there is none, and of that pool the
\* greatest, or the least when minimize is set.
C22_BestOfIndex ==
    (BestReturned /\ call.res = "Index" /\ ~Usable /\ ret.ok) =>
        LET pool == IF Stable # {} THEN Stable ELSE Satisfying
        IN /\ ret.val \in Satisfying
           /\ (ret.val \in call.pre) => Stable = {}
           /\ ret.val = IF call.minimize THEN Least(pool) ELSE Greatest(pool)

\* C22 witness: with a greater satisfying prerelease in the index, best
\* returned the greatest stable version, which is not the least one.
C22_Witness ==
    /\ BestReturned
    /\ call.res = "Index"
    /\ call.lock = 0
    /\ ~call.minimize
    /\ ret.ok
    /\ \E p \in Satisfying \cap call.pre : p > ret.val
    /\ \E q \in Stable : q < ret.val

\* C23: when the lockfile names a version that satisfies the constraint and
\* can be checked out, best returns it; when it names one that cannot be
\* used, best returns what it returns without a lockfile.
C23_LockfileFirst ==
    BestReturned =>
        /\ Usable => ret = Ok(call.lock)
        /\ (call.lock # 0 /\ ~Usable) => ret = best([call EXCEPT !.lock = 0])

\* C23 witness: best returned the locked version though the index holds a
\* greater stable version that satisfies the constraint.
C23_Witness ==
    /\ BestReturned
    /\ call.res = "Index"
    /\ Usable
    /\ ~call.minimize
    /\ ret = Ok(call.lock)
    /\ \E v \in Stable : v > call.lock

\* C23 witness of the other half: the checkout of the locked version failed
\* and best returned a version of the index.
C23_FallsThrough ==
    /\ BestReturned
    /\ call.res = "Index"
    /\ call.lock \in Satisfying
    /\ ~call.avail
    /\ ret.ok
    /\ ret.val # call.lock

FetchedWithChecksum ==
    /\ call.fn = "retrieve"
    /\ ret.called
    /\ call.kind = "Tar"
    /\ call.scheme \in {"http", "https", "file"}
    /\ call.cksum # 0
    /\ call.fetch_ok
    /\ call.read_ok

\* C25: retrieve of a tarball that declares a checksum returns the
\* checksum error iff the digest of the fetched content differs from the
\* declared hash, and when they are equal it goes on to the extraction and
\* succeeds.
C25_ChecksumVerified ==
    FetchedWithChecksum =>
        /\ (ret = Err("Checksum")) <=> call.hash # call.cksum
        /\ (call.hash = call.cksum /\ call.unpack_ok) => ret.ok

\* C25, what the code does: the checksum error is returned iff the digest
\* equals the declared hash.
C25_ChecksumInverted ==
    FetchedWithChecksum => ((ret = Err("Checksum")) <=> call.hash = call.cksum)

\* The content has the declared digest and retrieve returned the checksum
\* error.
C25_Rejected ==
    FetchedWithChecksum /\ call.hash = call.cksum /\ call.unpack_ok /\ ret = Err("Checksum")

\* The content has another digest than declared and retrieve succeeded.
C25_Accepted ==
    FetchedWithChecksum /\ call.hash # call.cksum /\ ret.ok

\* ------------------------------------------------------------- from_str
\* The string is "<kind>+<url>" with a url that parses.
KindPlusUrl(kind) ==
    /\ Len(call.s) >= 2
    /\ call.s[1] = kind
    /\ call.s[2] = "+"
    /\ Url_parse(SubSeq(call.s, 3, Len(call.s))).ok

UrlOf == Url_parse(SubSeq(call.s, 3, Len(call.s)))

\* C26: DirectRes::from_str accepts "tar+<url>" for every url of scheme
\* http, https or file and yields a Tar whose checksum is the parsed
\* fragment and whose url has no fragment; it accepts "dir+<file url>" as a
\* Dir; IndexRes::from_str accepts "index+<url>"; every other kind, and a
\* string without "+", is rejected with InvalidSourceUrl.
C26_Grammar ==
    ret.called =>
        /\ (call.fn = "DirectRes::from_str" /\ KindPlusUrl("tar")
              /\ UrlOf.scheme \in {"http", "https", "file"}) =>
               /\ ret.ok
               /\ ret.kind = "Tar"
               /\ ret.url = UrlOf.rest
               /\ ret.cksum = Checksum_from_str(UrlOf.fragment)
        /\ (call.fn = "DirectRes::from_str" /\ KindPlusUrl("dir") /\ UrlOf.scheme = "file") =>
               ret.ok /\ ret.kind = "Dir"
        /\ (call.fn = "IndexRes::from_str" /\ KindPlusUrl("index")) =>
               ret.ok /\ ret.kind = "Index"
        /\ (call.fn = "DirectRes::from_str"
              /\ (find(call.s, "+") = 0
                    \/ SubSeq(call.s, 1, find(call.s, "+") - 1) \notin {<<"tar">>, <<"dir">>})) =>
               ~ret.ok /\ ret.err = "InvalidSourceUrl"
        /\ (call.fn = "IndexRes::from_str"
              /\ (find(call.s, "+") = 0
                    \/ SubSeq(call.s, 1, find(call.s, "+") - 1) # <<"index">>)) =>
               ~ret.ok /\ ret.err = "InvalidSourceUrl"

\* C26, what the code does with tarballs: no "tar+<url>" is accepted.
C26_NoTarAccepted ==
    (ret.called /\ call.fn = "DirectRes::from_str") => ~(ret.ok /\ ret.kind = "Tar")

\* C26, the rest of the grammar without the tarballs and without git.
C26_GrammarOfDirAndIndex ==
    ret.called =>
        /\ (call.fn = "DirectRes::from_str" /\ KindPlusUrl("dir") /\ UrlOf.scheme = "file") =>
               ret.ok /\ ret.kind = "Dir" /\ ret.url = SubSeq(call.s, 3, Len(call.s))
        /\ (call.fn = "IndexRes::from_str" /\ KindPlusUrl("index")) =>
               ret.ok /\ ret.kind = "Index"
        /\ (call.fn = "DirectRes::from_str"
              /\ (find(call.s, "+") = 0
                    \/ SubSeq(call.s, 1, find(call.s, "+") - 1) \notin {<<"tar">>, <<"dir">>, <<"git">>})) =>
               ~ret.ok /\ ret.err = "InvalidSourceUrl"
        /\ (call.fn = "IndexRes::from_str"
              /\ (find(call.s, "+") = 0
                    \/ SubSeq(call.s, 1, find(call.s, "+") - 1) # <<"index">>)) =>
               ~ret.ok /\ ret.err = "InvalidSourceUrl"

\* A tarball url of scheme https with a checksum was rejected.
C26_TarRejected ==
    /\ ret.called
    /\ call.fn = "DirectRes::from_str"
    /\ KindPlusUrl("tar")
    /\ UrlOf.scheme = "https"
    /\ UrlOf.has_fragment
    /\ ~ret.ok
    /\ ret.err = "InvalidSourceUrl"

\* ------------------------------------------------------------- the lockfile
RECURSIVE Flatten(_)
Flatten(pkgs) ==
    IF pkgs = <<>> THEN <<>>
    ELSE <<Head(pkgs).sum>> \o Head(pkgs).dependencies \o Flatten(Tail(pkgs))

\* The elements of s in the order of their first occurrences.
RECURSIVE FirstSeen(_, _)
FirstSeen(s, seen) ==
    IF s = <<>> THEN <<>>
    ELSE IF Head(s) \in seen THEN FirstSeen(Tail(s), seen)
    ELSE <<Head(s)>> \o FirstSeen(Tail(s), seen \cup {Head(s)})

RoundTripped == call.fn = "lockfile" /\ ret.called /\ ret.stage = "graph"

\* C27: the graph rebuilt from the lockfile of a graph has the same set of
\* summaries and the same set of (parent, child) edges, and its nodes are
\* the summaries of the lockfile in the order of their first occurrences.
C27_RoundTrip ==
    RoundTripped =>
        /\ Range(ret.nodes) = ReachableFrom({0}, call.g)
        /\ {<<ret.nodes[e[1]], ret.nodes[e[2]]>> : e \in Range(ret.edges)} = call.g
        /\ ret.nodes = FirstSeen(Flatten(ret.packages), {})

\* C27 witness: a package with two parents, first seen as a dependency
\* before a package of a smaller number, and met again afterwards.
C27_Witness ==
    /\ RoundTripped
    /\ \E c \in Nodes : Cardinality({e \in call.g : e[2] = c}) >= 2
    /\ \E i \in 1 .. Len(ret.nodes) - 1 : ret.nodes[i] > ret.nodes[i + 1]
    /\ Len(Flatten(ret.packages)) > Len(ret.nodes)

\* ------------------------------------------------------------- Manifest::from_str
ManifestReturned == call.fn = "Manifest::from_str" /\ ret.called

\* C28: Manifest::from_str returns an error whenever the manifest defines
\* neither a lib target nor a bin target, and when it defines one of them it
\* does not return the error of the missing target.
C28_LibOrBin ==
    ManifestReturned =>
        /\ (call.lib = "none" /\ call.nbin = 0) => ~ret.ok
        /\ (call.lib # "none" \/ call.nbin > 0) =>
               ret.err # "manifests must define at least either a bin or lib target"
        /\ (call.package_ok /\ (call.lib = "valid" \/ call.nbin > 0)
              /\ call.lib # "invalid" /\ call.bins_ok) => ret.ok

\* C28 witness: a manifest that deserializes and defines test targets only
\* was rejected for its missing target.
C28_Witness ==
    /\ ManifestReturned
    /\ call.package_ok
    /\ call.targets
    /\ call.lib = "none"
    /\ call.nbin = 0
    /\ call.ntest > 0
    /\ ret = Err("manifests must define at least either a bin or lib target")

\* C28 witness of the other half: a manifest with bin targets and no lib
\* target was accepted.
C28_BinOnlyAccepted ==
    ManifestReturned /\ call.lib = "none" /\ call.nbin > 0 /\ ret.ok

\* ------------------------------------------------------------- the binaries of exec
CompiledBins == SelectSeq(log, LAMBDA e : e.ev = "compile_bin" /\ e.ok)

\* C29: the second list of a successful exec holds one (path, summary)
\* pair for each Bin(i) target compiled, with the summary of the package of
\* the job, in the order of the compilations, and nothing for a Lib or a
\* Test target.
C29_BinariesOutput ==
    (pc = "returned" /\ result.status = "ok") =>
        /\ Len(result.bins) = Len(CompiledBins)
        /\ \A k \in 1 .. Len(result.bins) :
              /\ result.bins[k] = <<CompiledBins[k].ix, CompiledBins[k].job>>
              /\ Bin(result.bins[k][1]) \in Range(targets(result.bins[k][2]))
        /\ \A n \in Nodes : \A t \in Range(targets(n)) :
              (t.k = "Bin" /\ \E i \in 1 .. Len(log) : log[i].ev = "dispatch" /\ log[i].job = n)
                  => <<t.ix, n>> \in Range(result.bins)

\* C29 witness: exec succeeded after it compiled libraries, a test and a
\* binary, and returned the one binary.
C29_Witness ==
    /\ pc = "returned"
    /\ result.status = "ok"
    /\ Len(result.bins) = 1
    /\ \E i \in 1 .. Len(log) : log[i].ev = "compile_test" /\ log[i].ok
    /\ \E i \in 1 .. Len(log) : log[i].ev = "compile_lib" /\ log[i].ok

\* ------------------------------------------------------------- no starved job
\* JobQueue::new has returned the graph.
GraphBuilt == pc \in {"constructed", "loop", "layer", "drain", "returned"}

NoneBelowDirty ==
    {e \in edges : is_dirty(work[e[1]]) /\ is_none(work[e[2]])}

\* C30: once JobQueue::new has built the graph, and after every step of
\* exec, no Dirty node has a child in state None; while new still builds the
\* graph, a child in state None of a Dirty node is in the layer being
\* visited or in the next one.
C30_NoStarvedJob ==
    /\ GraphBuilt => NoneBelowDirty = {}
    /\ pc = "new" => \A e \in NoneBelowDirty : e[2] \in curr_layer \cup next_layer

\* C30 witness: exec has evicted a node to None while a Dirty node with
\* children waits, one of its children Fresh and one Dirty.
C30_Witness ==
    /\ pc \in {"loop", "layer", "drain"}
    /\ \E n \in Nodes : is_none(work[n]) /\ is_dirty(work0[n])
    /\ \E e, f \in edges :
          /\ e[1] = f[1]
          /\ is_dirty(work[e[1]])
          /\ is_fresh(work[e[2]])
          /\ is_dirty(work[f[2]])

\* ------------------------------------------------------------- the deps of a job
\* C32: the deps a job is dispatched with are the Binaries of all of its
\* children, one for each child and in the order of the children.
C32_CompleteDeps ==
    \A k \in LogIdx :
        log[k].ev = "dispatch" =>
            /\ Len(log[k].deps) = Len(children(log[k].job))
            /\ \A i \in 1 .. Len(log[k].deps) :
                  /\ log[k].deps[i].hash = children(log[k].job)[i]
                  /\ log[k].deps[i].via \in {"checkout_build", "store_build"}

\* C32 witness: a job was dispatched with the Binaries of three children,
\* one checked out of the cache by new and one built by this exec.
C32_Witness ==
    \E k \in LogIdx :
        /\ log[k].ev = "dispatch"
        /\ Len(log[k].deps) = 3
        /\ \E i, j \in 1 .. 3 :
              /\ log[k].deps[i].via = "checkout_build"
              /\ log[k].deps[j].via = "store_build"

\* ------------------------------------------------------------- the Work of a node
\* The step of exec changes the Work of n in one of the three ways: the job
\* whose result is handled goes from Dirty to Fresh with its binary or from
\* Dirty to None without one, and a child of that job goes from Fresh to
\* None.
WorkStep(n) ==
    \/ /\ is_dirty(work[n]) /\ is_fresh(work'[n])
       /\ pc = "drain" /\ done # <<>> /\ Head(done).job = n /\ Head(done).bin # NoBin
       /\ work'[n].bin = Head(done).bin
    \/ /\ is_dirty(work[n]) /\ is_none(work'[n])
       /\ pc = "drain" /\ done # <<>> /\ Head(done).job = n /\ Head(done).bin = NoBin
    \/ /\ is_fresh(work[n]) /\ is_none(work'[n])
       /\ pc = "drain" /\ done # <<>> /\ <<Head(done).job, n>> \in edges

\* C33: during exec the Work of a node changes only from Dirty to Fresh,
\* from Dirty to None and from Fresh to None: no node becomes Dirty, and a
\* node that is None stays None.
C33_WorkStateMachine ==
    [][(pc \in {"constructed", "loop", "layer", "drain"}) =>
           \A n \in Nodes : work'[n] # work[n] => WorkStep(n)]_vars

\* C33 witness: exec has made all three changes: the root went from Dirty
\* to None, a node built by this exec was evicted, and a node is Fresh
\* with the binary it stored.
C33_Witness ==
    /\ pc \in {"drain", "loop", "returned"}
    /\ is_dirty(work0[0]) /\ is_none(work[0])
    /\ \E n \in Nodes \ {0} : is_dirty(work0[n]) /\ is_none(work[n])
    /\ \E n \in Nodes : is_dirty(work0[n]) /\ is_fresh(work[n])

\* ------------------------------------------------------------- the targets of a job
\* The compilations of job j, in the order of the log, as targets.
CompiledTargets(j) ==
    LET cs == SelectSeq(log, LAMBDA e : IsCompileEv(e) /\ e.job = j)
    IN [i \in 1 .. Len(cs) |->
           CASE cs[i].ev = "compile_lib" -> Lib
             [] cs[i].ev = "compile_bin" -> Bin(cs[i].ix)
             [] cs[i].ev = "compile_test" -> Test(cs[i].ix)]

\* C34: a job compiles its targets one after the other in the order of its
\* list, and its library, when it has one, before any of its Bin and Test
\* targets.
C34_TargetsInOrder ==
    \A j \in Nodes :
        /\ Len(CompiledTargets(j)) <= Len(targets(j))
        /\ \A i \in 1 .. Len(CompiledTargets(j)) : CompiledTargets(j)[i] = targets(j)[i]
        /\ \A k \in LogIdx :
              (log[k].job = j /\ log[k].ev \in {"compile_bin", "compile_test"}
                 /\ Lib \in Range(targets(j))) =>
                  \E i \in 1 .. k - 1 :
                      log[i].job = j /\ log[i].ev = "compile_lib" /\ log[i].ok

\* C34 witness: the root job compiled its library, then a binary, then a
\* test.
C34_Witness ==
    /\ CompiledTargets(0) = <<Lib, Bin(0), Test(0)>>
    /\ \E k \in LogIdx : log[k].job = 0 /\ log[k].ev = "finish" /\ log[k].ok

\* ------------------------------------------------------------- visits of new
\* C35: JobQueue::new classifies every node at most once.
C35_SingleClassification == \A n \in Nodes : visits[n] <= 1

\* new has returned a graph in which a child of the root and of another
\* child of the root was classified twice.
C35_VisitedTwice ==
    /\ pc = "constructed"
    /\ \E b, d \in Nodes :
          /\ {<<0, b>>, <<0, d>>, <<b, d>>} \subseteq edges
          /\ visits[d] = 2
          /\ visits[b] = 1

\* ------------------------------------------------------------- the library paths of exec
FreshRootChildren == {c \in Nodes : <<0, c>> \in edges /\ is_fresh(work[c])}

\* C36: the first list of a successful exec holds the path of the artifact
\* of each child of node 0 that is Fresh when the loop has ended, once, and
\* nothing else: no path for a child that was evicted to None.
C36_LibraryPaths ==
    ReturnedOk =>
        /\ Len(result.libs) = Cardinality(FreshRootChildren)
        /\ \A c \in FreshRootChildren :
              \E i \in 1 .. Len(result.libs) : result.libs[i] = target_path(work[c].bin)
        /\ \A i \in 1 .. Len(result.libs) :
              \E c \in FreshRootChildren : result.libs[i] = target_path(work[c].bin)

\* C36 witness: exec returned the path of one child of the root while
\* another child of the root, built by this exec, had been evicted when the
\* root job completed with its library.
C36_Witness ==
    /\ ReturnedOk
    /\ Len(result.libs) = 1
    /\ is_fresh(work[0])
    /\ \E c \in Nodes : <<0, c>> \in edges /\ is_none(work[c]) /\ is_dirty(work0[c])

\* ------------------------------------------------------------- Targets::new keeps
\* C37: every Test(i) and every Doc of the list given to Targets::new is in
\* the list it returns.
C37_NothingLost ==
    Len(tchain) >= 2 =>
        \A t \in Range(tchain[1]) : t.k \in {"Test", "Doc"} => t \in Range(tchain[2])

\* C37, what the code does: the list returned holds at most one of the Test
\* and Doc targets, and none when the list given holds a Lib.
C37_AtMostOneKept ==
    Len(tchain) >= 2 =>
        /\ Cardinality({i \in 1 .. Len(tchain[2]) : tchain[2][i].k \in {"Test", "Doc"}}) <= 1
        /\ Lib \in Range(tchain[1]) => ~HasTestOrDoc(tchain[2])

\* Targets::new([Lib, Test(0)]) returned [Lib].
C37_TestLost ==
    /\ Len(tchain) >= 2
    /\ tchain[1] = <<Lib, Test(0)>>
    /\ tchain[2] = <<Lib>>

\* ------------------------------------------------------------- the widening is sound
\* The version v is in the range r.
Covers(r, v) ==
    /\ r.lower.kind = "Closed" => r.lower.v <= v
    /\ r.upper.kind = "Closed" => v <= r.upper.v

C39_ResultSatisfies == (BestReturned /\ ret.ok) => ret.val \in call.con

\* C39, what the code does: the version satisfies the constraint when it
\* comes from the lockfile or from the index; the version of the manifest
\* of a direct package and the version of the root are returned untested.
C39_TestedUnlessUpstreamOrRoot ==
    (BestReturned /\ ret.ok) =>
        \/ ret.val \in call.con
        \/ call.res = "Direct" /\ ~Usable /\ ret.val = call.src_version
        \/ call.res = "Root" /\ ret.val = call.root_version

\* best returned the version of the manifest of a direct package, which
\* the constraint does not allow, with no version in the lockfile.
C39_UpstreamUnsatisfying ==
    /\ BestReturned
    /\ call.res = "Direct"
    /\ call.lock = 0
    /\ call.con # {}
    /\ ret.ok
    /\ ret.val \notin call.con

\* ------------------------------------------------------------- no extraction after the checksum error
\* C40: when retrieve returns the checksum error for a tarball, it has put
\* nothing into the target directory.
C40_NothingUnpacked ==
    (call.fn = "retrieve" /\ ret.called /\ ret.err = "Checksum") =>
        /\ call.kind = "Tar"
        /\ ret.val = 0

\* C40 witness: retrieve returned the checksum error for an archive read
\* from a file whose unpacking would have failed half way, and the target
\* directory is empty.
C40_Witness ==
    /\ FetchedWithChecksum
    /\ call.scheme = "file"
    /\ ~call.unpack_ok
    /\ ret.err = "Checksum"
    /\ ret.val = 0

\* The results rs handled one after the other by the Ok arm, from the graph
\* and the queue of st.
RECURSIVE HandleAll(_, _)
HandleAll(st, rs) ==
    IF rs = <<>> THEN st
    ELSE HandleAll(AfterOk(st.work, st.queue, Head(rs)), Tail(rs))

\* The orders in which the results rs can be popped.
PopOrders(rs) ==
    {[i \in 1 .. Len(rs) |-> rs[p[i]]] :
        p \in {q \in [1 .. Len(rs) -> 1 .. Len(rs)] :
                  \A i, j \in 1 .. Len(rs) : q[i] = q[j] => i = j}}

\* Every job of the layer has pushed an Ok result and none is handled yet.
LayerDone ==
    /\ pc = "drain"
    /\ Len(done) = Len(layer)
    /\ \A i \in 1 .. Len(done) : done[i].ok

C31_SharedFreshChild ==
    /\ LayerDone
    /\ \E i, j \in 1 .. Len(done) :
          /\ i # j
          /\ \E x \in Range(children(done[i].job)), c \in Range(children(done[j].job)) :
                /\ c \in Range(children(x))
                /\ is_fresh(work[x])
                /\ is_fresh(work[c])

====
